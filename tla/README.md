# fabric8-jenkins-proxy in TLA+

fabric8-jenkins-proxy stands in front of the Jenkins of every tenant of
OpenShift.io. A tenant's Jenkins is *idled* (its pod is stopped) while nobody
uses it. The proxy answers in its place: it buffers GitHub webhooks and replays
them once Jenkins is up, and it shows users a waiting page, starts their Jenkins
and logs them in. This directory holds a TLA+ model of it, the TLC runs that
check the model on small instances, and TLAPS proofs of the results that should
hold for every instance.

    cd tla
    tlc -workers 2 -config webhook_overlap.cfg MCWebhookProxy.tla   # a run
    tlapm WebhookProxyProofs.tla                                     # proofs

## Inventory

| component | source | state | operations | what is hard |
|---|---|---|---|---|
| webhook handler | `internal/proxy/proxy.go` (Handle), `internal/proxy/github.go` | none of its own; one goroutine per delivery, its decisions in local variables | resolve the owner, read the pod's state, buffer the delivery or pass it through, start Jenkins, record statistics | every call can fail after an earlier one took effect; the state is read once and used later; requests of one tenant run concurrently |
| replay loop | `github.go` (ProcessBuffer) | copies of the rows of one namespace | per pass: list namespaces, list rows, check the pod, send, count a failure or delete | acts on copies; crash between sending and deleting; two loops during a rolling deployment; one sequential loop for all tenants |
| request storage | `internal/storage/*.go` | PostgreSQL tables `requests`, `statistics` | insert, list, update, delete, single statements without transactions | read-modify-write across statements, primary-key conflicts |
| usage statistics | `proxy.go` (recordStatistics), `internal/api/api.go` | `statistics` rows: last access, last buffered request | read, then insert or overwrite the whole row | the lock covers only the write: lost updates |
| UI sessions | `internal/proxy/ui_requests.go`, `proxy.go` (OnErrorUIRequest), `internal/proxy/cookieutil` | ProxyCache (session id or UUID -> Jenkins), the browser's cookies | log in with a token, wait while Jenkins starts, forward, expire | three kinds of cookie, a cache that forgets, requests of a browser in parallel, redirects |
| Jenkins access | `internal/proxy/jenkins.go`, `internal/idler/idler.go` | none | State, Start (unidle only when idled), Login | state read and unidle are two calls |
| reverse proxy | `internal/proxy/reverseproxy/*.go` | per request: recorded status, error | forward, swallow 502/503/504/403, redirect to the same URL | what was already written; timeout against answer |
| owner lookup | `github.go` (getUser*), `codebase.go`, `internal/wit`, `internal/tenant` | TenantCache (repository -> namespace, 30 minutes) | cached lookup through wit and the tenant service, with retries | stale entries, concurrent misses |
| authentication keys | `internal/auth/auth.go` | public keys, a `resync.Once`, timers | fetch keys at most once per period, look up a key, check a token | callers, timers and failures interleave |
| Jenkins API | `internal/jenkinsapi/jenkinsapi.go` | none | Status, Start over HTTP | state read and unidle are two calls; codes of failed calls |
| life cycle | `cmd/fabric8-jenkins-proxy/main.go` | servers, workers, a wait group, a context | boot, serve, signal, shut down | a server that fails alone; shutdown against requests in flight |
| configuration, metrics, logging, statistics API, `cmd/osio`, `internal/util`, `internal/router` | | static, read-only or write-only | | no state that the rest depends on: not modelled |

How they interact. A GitHub delivery and a UI request enter at `Handle`. The
handlers call the tenant service, wit and auth (owner lookup), the idler (pod
state, unidle), the database, and Jenkins itself through the reverse proxy. The
replay loop shares the database with the handlers, and with the handlers and the
loop of a second proxy while a deployment rolls over (`openshift/*.app.yaml`:
one replica, rolling strategy). Nothing else is shared between requests but the
two caches. No call has a transaction around it, and no two calls are atomic.

What makes each correct. Webhooks: what GitHub was told is buffered stays
buffered until Jenkins has it, is not repeated without cause, and gets its
Jenkins started; a tenant does not hold up another. Statistics: the row tells
the last access and the last buffered request. UI: a user with a valid token
ends up in their own Jenkins, never in another's, and a browser does not loop.
Keys: a token is checked against fetched keys, and keys are fetched once per
period. Owner lookup: an answer is never older than the cache allows, and a short
outage costs nothing. Jenkins API: a start that is reported to have succeeded has
started Jenkins. Life cycle: the process is up as a whole or ends, and requests in
flight are finished before it does (they are not, see below).

## The webhook path

| module | models |
|---|---|
| `Pods` | the pods and the idler, and the budgets of failing calls (`MaxFaults`) and idled pods (`MaxIdles`) |
| `Platform` | what a Jenkins does with the deliveries sent to it |
| `RequestStore` | the tables, one operator per SQL statement |
| `WebhookHandler` | one handler per delivery, one action per call that reads or writes shared state |
| `ReplayLoop` | one loop per proxy |
| `WebhookProxy` | all of them together, with crashes; the properties |
| `WebhookMailbox` | the abstract specification: a mailbox that a delivery enters at most once and leaves only when settled |
| `MCWebhookProxy` | instances for TLC |
| `WebhookProxyProofs`, `WebhookBoundsProofs`, `WebhookRetryProofs` | theorems |

State. `jenkins[ns]` is what the idler reports. `requests` holds the deliveries
that have a row; `owner`, `retries` are its columns. `statistics` is reduced to
the namespaces that have a row, the part that decides between insert and update
and so between 202 and 500. `pc[h]` is where the handler of delivery `h`
is, `reply[h]` the status it has written. `lpc[p]`, `todo[p]`, `batch[p]`,
`cur[p]` are the local variables of the loop of proxy `p`: namespaces left in
the pass, rows not yet tried, the row in hand. `received`, `refused`,
`failures`, `spoiled` record what happened to each delivery at Jenkins (200;
400 or 404; a failed attempt) and in the table (the row was dropped because
its counter could not be saved or no request could be made from it).

Actions. Each call of the code is a step, with its success and its failure:
`ResolveOwner`, `CheckState`, `StoreRequest`, `ReadStats`, `CreateStats`,
`UpdateStats`, `Start`, `StartUnIdle`, `Forward` for the handler; `GetUsers`,
`GetRequests`, `CheckRow`, `EndOfRows`, `Send`, `GiveUp`, `DropUnformattable`,
`IncrementRetry`, `DeleteSettled` for the loop. `RecordVisit` is the goroutine
that records an access. Three simplifications: the lookups before `CheckState`
have one step, since they change nothing; recordStatistics inside the loop and in
the goroutine is one step, since its error is only logged and its effect on the
set of rows is that of its insert; sending and Jenkins' processing are one step,
since what matters later is only whether Jenkins has the delivery and whether
the proxy knows. The order of rows is arbitrary, as the query has no ORDER BY.

A crash (`Crash`) ends the handlers of a proxy and starts its loop anew; the
response of a handler that had not returned is lost, as net/http sends it when
the handler returns.

### Runs

| run | instance | shows |
|---|---|---|
| `webhook_overlap` | 1 delivery whose repository moves to a tenant on an unknown cluster, 2 proxies, limit 1; one fault, idled pod, crash | `TypeOK`; `AcceptedKept`: after 202 there is a row until the delivery is settled; `BufferedMeansWoken`: a handler that leaves a row behind leaves it with a Jenkins that is up or coming up, unless the two calls of Jenkins.Start fail; `DuplicateBound`: Jenkins gets the delivery once per proxy and once more per fault or crash; `OverlapRetryBound`: the failed attempts stay bounded although two loops overwrite each other's counters; `LossNeedsCause`: a delivery answered with success is only lost if a call failed, a pod was idled or Jenkins itself turned it into an error; `NoResurrection`: a deleted row never returns; `ImplementsMailbox`: all of it is a behaviour of the mailbox |
| `webhook_drains` | 2 tenants, the delivery of one never accepted, 1 proxy, one idled pod | `RetryBound`: attempts stay within the limit; `BufferDrains`, with fairness: if a tenant's Jenkins is up for good, its deliveries leave the table |
| `webhook_cached_error` | 1 delivery of a tenant that may have no statistics row, nothing fails | violates `CachedMeansSuccess` |
| `webhook_lost` | 1 delivery, one idled pod | violates `BufferedIfUnavailable` |

Bounds. One fault, one idled pod and one crash, placed anywhere, are enough for
each hazard of this path listed in `PROJECT.json`, since each needs one such
event at the wrong moment. Dropping a row whose counter cannot be saved (`Drop`)
needs a failed attempt and then a failing call; a pod that is idled between the
check and the send makes the first. Two proxies are needed for the overlap, and two
deliveries for rows that wait behind another (`webhook_drains`). One delivery is
enough for the race on the statistics row (`webhook_cached_error`), since the replay
loop records statistics as well. What these runs leave to larger
instances, several deliveries with faults and crashes and limits above 1, is what
the theorems below cover for any number of deliveries and any limit: every
safety property of this path is proved. `webhook_drains` leaves faults and crashes
out, to keep the graph that liveness is checked on small.

Fairness (`webhook_drains` only). Weak fairness of each handler and each loop:
goroutines run, and a call returns. The last is an assumption about Jenkins: the
loop uses `http.DefaultClient`, which has no timeout, so a Jenkins that accepts
a connection and never answers holds up all tenants. Weak fairness of a started
pod coming up. None for arrivals, idling, users, faults and crashes.

### Findings

| run | the code | against |
|---|---|---|
| `webhook_cached_error` | the handler of a tenant's first delivery reads that there is no statistics row; before it inserts one, the replay loop has found the new delivery and inserted it (`github.go:179`); the handler's insert fails and it answers 500, although the delivery is buffered and will be replayed. Another delivery or visit of the tenant can take the loop's part | `github.go:92` "we need to cache the request and return success" |
| `webhook_lost` | Jenkins goes away between the state check and the forwarding; GitHub has its 200, nobody has the delivery | `proxy.go:39` "it buffers it and replays if Jenkins is not available" |

`LossNeedsCause` says how far the second one goes: a pod that is idled, or a call that
fails, is the only cause. A Jenkins that is starting, a crash, a second proxy or the
order of the steps loses nothing.

### Proofs

`WebhookProxyProofs` proves, for all sets of deliveries and tenants, any finite set
of proxies and all bounds, under the named assumptions on the constants:

- `TypeCorrect`: `Spec => []TypeOK`;
- `AcceptedIsKept`: `Spec => []AcceptedKept`;
- `RowsStayDeleted`: `Spec => NoResurrection`;
- `Refinement`: `Spec => ImplementsMailbox`, the mailbox of `WebhookMailbox`.

`AcceptedKept` is not inductive: whether a delete is harmless depends on why the
loop decided on it. The inductive invariant `IInv` adds that a row exists (or is
settled) from its insert on and not only from the 202 (`StoredKept`); that the
counter in the table and in every copy is at most the number of attempts
that really failed (`CountersLag`), so that giving up is justified whatever stale
copy a loop holds; that a loop about to count has seen one more failure than
its copy says, and a loop about to delete holds a settled row (`LoopJustified`);
that a delivery that can still be inserted has no row and no answer
(`OpenUntouched`) and is in no loop's hands (`CopiesClosed`). The proofs go
action by action. `NextGrows` and `RemovalNext` carry the argument: what settles a
delivery is never taken back, and only settled rows leave the table.

`WebhookBoundsProofs` builds on it:

- `BufferedIsWoken`: `Spec => BufferedMeansWoken`;
- `AttemptsAreBounded`: `Spec => []RetryBound`;
- `DuplicatesAreBounded`: `Spec => []DuplicateBound`;
- `LossHasCause`: `Spec => []LossNeedsCause`.

`BufferedMeansWoken` is about the step with which a handler ends. It follows from two
invariants, that a delivery has no row before its insert (`OpenUntouched`) and none if
it is passed through (`ForwardUnbuffered`): so a handler that ends with a row ends in
one of the two calls of Jenkins.Start (`HandlerEnds`), which read the state again,
whatever failed and whichever pods were idled before (`EndsWoken`).

`RetryBound` speaks of one proxy, where the argument is about a lag. Nobody but its
loop changes a row, so that a copy carries the counter of the row (`CopiesFresh`), and
the attempts at a delivery are at most the counter in the table plus the attempt in
hand that is not counted yet plus the wasted ones, each of which has cost a fault or
a crash (`AttemptsCounted`). A row that can still be
inserted has no attempt (`OpenUntried`). The loop gives up at the limit, so the counter
never passes it (`AttemptsBounded`). With two proxies the bound is false, as one
writes back an older counter over the other's; what holds then is `OverlapRetryBound`,
below.

`DuplicateBound` is an argument about a potential. `Holding(h)` are the loops with a
copy of the row in hand or in their batch that may still send it, `Deleting(h)` those
that have an answer and are about to delete. While the row exists, every 200 Jenkins
has given is paid for by a loop in `Deleting` or by a fault or crash; once it is
gone no loop can get a new copy (`NoResurrection`, `CopiesClosed`), and what was
received plus what `Holding` can still send stays within the number of proxies
and of things gone wrong (`ReceivedBounded`). The sets are disjoint and within
`Proxies`, which is why it has to be finite. A failed delete costs a fault when a
loop leaves `Deleting` with the row still there.

`LossNeedsCause` becomes inductive with `PassedOn`: while nothing has failed and no pod
was idled, the Jenkins of a delivery that is on its way through still runs, since only the
idler stops one (`RunningStays`); then the forwarding can only end in Jenkins' own
answer. What was buffered is `AcceptedKept`.

`WebhookRetryProofs` proves the bound that is left when proxies overlap:

- `OverlapIsBounded`: `Spec => []OverlapRetryBound`, for any finite set of proxies;
- `TwoAreBounded`: with two proxies, `2 * failures[h]` stays below
  `(MaxRequestRetry + 1) * (MaxRequestRetry + 2) + 2 * (faults + crashes)`.

A loop saves its own copy's counter plus one, so that the counter in the table may go
back, and the two loops may take turns in setting each other back; nothing in the code
says that this ends. The argument looks at the counters all proxies have for a row, each
the least of the table's and of its copies (`CountsOf`), as a spread: how many
proxies have 0, how many 1, and so on. A counter that is saved takes at least one proxy
away from the lowest value that changes and adds none there or below, so that the
spread becomes later in a lexicographic order (`RaisesMovesOn`), whatever happens to the
others. There are finitely many spreads, and a failed attempt is paid for by the ones
that are no longer ahead, except for the counters not saved yet (`Owing`) and for what
a fault or crash has cost (`AttemptsPaid`). Once the row is gone nothing is saved any
more; each loop that still holds a copy (`Trying`) may fail once, and there are at
least as many spreads ahead as such loops (`AheadSuffices`).

With one proxy a spread is a value of the counter and the bound is that of `RetryBound`
(`SpreadsOfOne`); with two it is an unordered pair of counters (`SpreadsOfTwo`). The
default limit is 10 (`env_config.go:22`) and the deployment rolls over from one proxy to
the next (`openshift/jenkins-proxy.app.yaml:16`): up to 65 failed attempts instead of 10.

Only model-checked: `BufferDrains`, a liveness property.

## The user interface

| module | models |
|---|---|
| `Pods` | as above |
| `Browser` | the cookies and tabs of one user's browser, and the script of the waiting page |
| `UIHandler` | handleJenkinsUIRequest, the reverse proxy behind it and OnErrorUIRequest, one request per tab |
| `JenkinsUI` | all together: the user, a cache that forgets, restarts of the proxy, pods; the properties |
| `SessionRouter` | the abstract specification: a value that is handed out stands for one Jenkins until nobody holds it, and can only be forgotten |
| `JenkinsUIProofs` | theorems |

State. `cache` is ProxyCache, from a cookie's value (a session id of Jenkins or a
UUID of the proxy) to the namespace it routes to. `sessions[n]` are the sessions
the Jenkins of `n` knows. `jar` holds the browser's cookies, `tab[t]` what a tab
shows or waits for, `xhr[t]` whether its request comes from the waiting page's
script, `response[t]` the answer on its way: its kind, the names it expires and
the cookies it sets. `pc[t]`, `ns[t]`, `req[t]` are the handler's place, the tenant
it found and its local variables: the cookies that were sent, those not looked at
yet, `cacheKey`, `needsAuth`, and what has been written already.

Actions. `ArriveWithToken`, `TokenFails`, `TokenIdled`, `TokenRunning`, `Login`,
`LoginRefused`, `LoginWithoutSession` are the path of a request with `token_json`;
`Arrive`, `CookieOld`, `CookieHit`, `SessionRunning`, `SessionStopped`, `IdledWaits`,
`IdledRuns`, `ProbeServed`, `ProbeNotServed`, `ProbeFails`, `StartFails` and
`EndOfCookies` the loop over the cookies, which goes on after the waiting page is
written, as in the code; `ForwardPage`, `ForwardForbidden` and `ForwardUnavailable`
the reverse proxy; `OnErrorSeveral`, `OnErrorValid`, `OnErrorInvalid`,
`OnErrorUnchecked` what follows a 403. In `JenkinsUI` a pod that stops takes its
sessions along (`Stop`), entries of the cache expire (`CacheExpires`), and the proxy
restarts (`Restart`).

Simplifications. Jenkins.Start (state and unidle) is one step here, and two in the
webhook path. All tabs look at one directory; `Deep` says whether it is another
than the root. Then a cookie that is expired without a Path, as ExpireCookie does,
does not replace the one Jenkins set with a Path, while the proxy's own cookie has
none either time. The order of cookies is arbitrary. `SessionNames` is any set,
larger than what the session names of two Jenkins can be. Statistics are left to
`UsageStatistics`. Cookies that Jenkins sets on pages it serves itself are not
modelled, nor a front page that is forbidden to its own user (the check of
checkSessionValidity). `CleanUp` forgets values no browser holds: it keeps the
number of values finite and has no counterpart in the code, where values are fresh
for ever.

### Runs

| run | instance | shows |
|---|---|---|
| `ui_tabs` | 1 tenant, 2 tabs below a directory, one of them at a page Jenkins forbids, 3 values, one idled pod | `TypeOK`; `WaitMeansWoken`: a tab waits only for a Jenkins that was started; `LiveSessionKept`: a session Jenkins knows leaves the cache only for an expiry, a restart or a 403 with several session cookies; `ReachesPage`: the user gets the page, although the tabs expire each other's cookies; `ImplementsRouter`: all of it is a behaviour of the router |
| `ui_reaches_deep` | 2 tenants, 1 tab below a directory, 2 session names, 2 faults, 2 idled pods, 1 lapse of the cache | `RoutedToIssuer`: a session is routed to the Jenkins that issued it; `ReachesPage` with several session cookies in one request, two Jenkinses and everything that can go wrong; `ImplementsRouter` |
| `ui_forbidden` | 1 tab at a page Jenkins forbids, no fault | violates `AnswerProxied` |

Bounds. Two tabs are what it takes for an answer that overtakes another and for a
waiting tab whose cookie another one deletes; two tenants for a wrong route; two
session names, with `Deep`, for several session cookies in one request. Three
values are a session, an idled cookie, and a new one while both are held; where a
run needs a further one, `CleanUp` must come first, and fairness makes it come.
The two runs divide what is too large together: two tabs in one, faults, lapses and
two tenants in the other. The safety properties are proved for both at once. No
symmetry is used, as liveness is checked on the same graphs.

Fairness. Weak fairness of each tab's step (handlers run and calls return; the script
polls; the user logs in when asked to and reloads a page that went wrong) and of a
started pod coming up. That calls return is what the code sees to for the idler, the
tenant service, the reverse proxy and checkSessionValidity, whose clients have a
timeout. For Jenkins.Login it is an assumption: the login and the probe of a waiting
page use `http.DefaultClient` (`jenkins.go:109`), which has none, so that a Jenkins that
accepts a connection and never answers holds the tab until the browser gives up. Faults, idled
pods and lapses are not fair and are bounded: a page is reached once they stop.
`ReachesPage` is not claimed for forbidden pages, for which it is false
(`ui_forbidden`).

The script of the waiting page gives its last handler the key `default`
(`static/html/index.html:63`), which the statusCode option of jQuery does not know: after
one error status it never asks again. The model has it (`ScriptDoes`, the state
`stuck`), and `ReachesPage` holds because the user reloads.

Findings.

| run | the code | against |
|---|---|---|
| `ui_forbidden` | a 403 is turned into a redirect to the same page, also with a valid session: the browser goes round in circles | `reverseproxy.go:14` "proxying the response back to the client if it is received within a timeout" |

### Proofs

`JenkinsUIProofs` proves `TypeCorrect` (`[]TypeOK`), `Routed` (`[]RoutedToIssuer`),
`LiveSessions` (`LiveSessionKept`) and `WaitsForWoken` (`[]WaitMeansWoken`) for any sets of
tabs, tenants, values and names, and any bounds. The inductive invariant `IInv` of `JenkinsUI` adds to
`RoutedToIssuer` that a session has one issuer (`OneIssuer`), that a stopped Jenkins
knows none (`StoppedForgets`), that the value of an idled cookie, wherever it is, is
nobody's session (`IdledApart`, so that deleting the entry of an idled cookie drops
no session), that the loop looks at cookies that were sent (`LooksAtSent`), and
that a handler that forwards holds a session cookie routed to its tenant or
forgotten by now (`KnowsNs`). The last one is what `OnErrorInvalid` needs: the
session it drops belongs to the Jenkins that has just disowned it.
`WaitsForWoken` needs a second invariant, `WaitInv`, on top of `IInv`: a tab becomes
waiting by an answer, possibly a redirect that the script follows, and each was
decided on at a step of the handler that had just started or found running the
Jenkins in `ns`. So the namespace is one that was woken from that step on, through the
rest of the loop and the forwarding until the tab asks again (`Waits`), and a tab has
one request at a time (`OneAtATime`), so that no earlier answer arrives later.

`Refinement` is `Spec => ImplementsRouter`: with `route` read as the cache and `held` as
the values in the jar, in a request, in an answer or in a handler's hands, every step
hands out one unused value or forgets some. That a new session id or UUID is unused is
what `Fresh` assumes of Jenkins and of the UUID library; the rest is the proxy's: the
entry it writes is for the value it has just received, in the tenant that the user
has (`Login` and `TokenIdled`, `RouterIssues`), and no other action writes a route, revives a
forgotten value or passes on a cookie that was not sent to it (`RouterForgets`,
`HeldShrinks`). The safety of the proxy's cookies is thus that of a few lines, whatever
tabs, redirects and pods do.

Only model-checked: `ReachesPage`, a liveness property.

## Authentication keys

`AuthKeys` models the keys of `internal/auth/auth.go` with all goroutines that check
tokens and the one that NewClient starts. `done` and `holder` are the flag and the
mutex of `singleUpdate`, a `resync.Once`, whose Do is modelled in its steps
(`DoLooks`, `DoLocks`, the fetch, the release) since the races are about them.
`timers` counts pending calls of `time.AfterFunc`; when one fires is left open, so
the properties hold for any `updateWait`. A fetch and the storing of its keys are
one step: a reader in between sees fewer keys, as one before it does. A failed fetch
stores none, some or all keys, since updatePublicKeys goes on after a key it cannot
parse and fails in the end. A token whose key is known changes nothing and is not a
step. `rejected` remembers the keys a token was turned down for.

`KeyUpdates` is the abstract specification, what the comment at `auth.go:178` says:
keys are fetched by one goroutine at a time, and again only after a reset.

Run `auth_keys`: 2 goroutines, 2 keys, one failing fetch and one rotation, at most
two timers when a check begins. `ResetComes`: a flag that is set has a timer or a
caller that will clear it. `FirstFetchAwaited`: without failure or rotation nobody
with a published key is turned down. `ImplementsUpdates`: callers, timers and the steps of
Do and Reset are a behaviour of `KeyUpdates`. `CheckEnds`: every check ends, in spite of the
mutex that Do holds while it fetches and that Reset takes. `KeysArrive`: a key that
stays published becomes known. Two goroutines are the one that fetches and one that
waits; a third would wait like the second. Deadlock is not checked: when all keys
are known and no budget is left there is nothing to do.

Fairness is strong, of each goroutine and of the timers, because a Go mutex hands
itself to a waiter after a millisecond however often others take it, and because
the fetch has a client with a timeout; and of a user with a rejected token, who
comes again. `AuthKeysProofs` proves `TypeCorrect`, `ResetAlwaysComes`,
`FirstFetch` and `Refinement` (`ImplementsUpdates`) for any number of goroutines, keys and timers. `ResetComes` is inductive
with the types: who sets the flag stands in `after`, and leaves it by clearing the
flag or starting a timer. For `FirstFetchAwaited` the invariant `FirstFetchInv` adds
that, while nothing has failed or changed, the published keys are all known once
the flag has been set or a caller is past Do. `Refinement` reads `updating` as the
callers that fetch; its invariant `FetcherHolds` says that one of them holds the mutex
and has found the flag unset after it got it, so that there is never a second one, and
that nobody resets the flag meanwhile.

## Usage statistics

`UsageStatistics` models recordStatistics on the row of one tenant; rows are
independent. `row` is the row, `pc[r]`, `event[r]`, `copy[r]` the place of a recorder,
the time it was called with and the row it has read and changed. `Read`, `ReadNew`,
`CreateStatistics`, `CreateConflicts`, `UpdateStatistics` and `StatementFails` are its
statements. visitLock is not modelled: it is held around one statement, which the
database makes atomic. A history variable says what may be expected: `lasting` holds
the last times that were written when no other recorder threatened them (`Threatens`),
that is, when none held a copy that it had read before, and none had yet to read the
row and came with an older time of the same column.

Recorders that cross lose each other's times: one writes back the old value of the
other column. This is what the code does and nothing in it says otherwise.
`RecordedKept` says that a time is lost in no other way: what is in `lasting` stays in
the row or gives way to a later time, also if recorders overlap, if two insert the row
at once and one of them fails on the primary key, or if a statement fails. Run
`statistics`: 3 recorders (two that cross and one that has gone before), 3 clock ticks,
one failing statement. The clock only orders the calls, three ticks give all orders of
three calls. `UsageStatisticsProofs` proves `TypeCorrect` and `RecordedStays` for any
number of recorders, from the invariant that the row covers `lasting`, that a recorder
that has yet to read the row comes with a time no older than it, and that a copy about
to be written covers `lasting` and the time it was made for.

## Owner lookup

`OwnerLookup` models getUserWithRetry and getUser (`internal/proxy/github.go`) for any
number of goroutines that look up one repository; the entries of TenantCache do not
depend on each other. `owners` and `home` are what wit and the tenant service
know, and change (`OwnersChange`, `HomeChanges`). `cached` and `life` are the entry of
TenantCache and the time it has left; `pc[c]`, `try[c]`, `owner[c]`, `ns[c]` the place of a
caller, the number of its try, the owner wit has named and the namespace it has
found. The two services are asked one after the other, and the entry is written
after both, each a step of its own (`SearchCodebase`, `GetTenantInfo`,
`SetDefault`), since the hazards are about what happens in between. `TryAgain` is a
failed try: a service fails, knows no owner, or no Jenkins namespace. wit may list
codebases of several owners, and the first that is listed wins (`OwnedBy`).

Time. A tick is a second. Nothing has an absolute time: `elapsed[c]` and
`failedFor[c]` count from the begin of a try or a sleep and from the first failure,
`ownedAge` and `homeAge` how long something has not been true, up to `Old`, after
which the properties do not ask. `Slow` is how long a try takes at most; it is
assumed, and the tick waits for it. The client of the tenant service has a timeout,
that of wit has none.

Run `owner_lookup`: 2 callers, 2 users, 2 namespaces, 2 tries, an entry of one tick,
one change. `FreshEnough`: the namespace a lookup returns belonged, within
the life of an entry and one slow try, to a user who had the repository within the
same time. The bound is not just the life of the entry, since an entry may be filled from
an answer that is older than itself, and an older one may overwrite a newer one.
`OutageTolerated`: a lookup fails only if its tries failed for all but one of the
`Retry` seconds. `LookupEnds`, with fairness: every lookup ends. Two callers are the one
that overwrites and the one that is overwritten; one change makes an answer old, of the
owner or of the namespace. That the two were true together is not claimed: they come from
two services, one after the other. Fairness is weak, of each caller (goroutines run, calls return) and of
time; callers, changes and failures need not come.

`OwnerLookupProofs` proves `TypeCorrect`, `Fresh` (`FreshEnough`) and `Outage`
(`OutageTolerated`) for any number of callers, users, namespaces, tries, and any times.
For `Fresh` the invariant bounds the age of everything that is under way: what a
caller has learned is no older than its try has lasted, and what is cached no older
than the time the entry has used up and one slow try. For `Outage` it bounds
the time since the first failure from below by the number of tries since.

## Jenkins API and life cycle

`JenkinsAPI` models Status and Start of `internal/jenkinsapi/jenkinsapi.go` over `Pods`, one
step for each call of a request: the token's user and key (`UIDFromToken`), the
tenant service (`GetNamespace`), the state (`State`, `StateFails`), the unidle call
(`Start`). `answer[r]` is the code of the answer. `NoAnswer` stands for the code 0 of a
failed unidle, which is not valid HTTP, and for a handler that panics: a token
without a subject (`auth.go:87`), an answer of the idler without data (`idler.go:146`).
`started` remembers the namespaces whose start was answered with 200 and whose pod was
not idled since.

`Lifecycle` puts it into the process of `cmd/fabric8-jenkins-proxy/main.go`: the steps of
the boot (`phase`), the servers, each listening from its own goroutine at any time
after the workers have started, the wait group (`waiting`), the context of the
workers, the signal, and a server that fails. `grace` counts the seconds since the
context was cancelled. When the process ends it takes the requests along (`Exit`);
for the webhook path and the user interface that is `Crash` and `Restart`, as the
replay loop is not in the wait group and the other servers' requests are cut in the same
way. The proxy, API and profiler servers differ from the Jenkins API's only in their
handlers.

| run | instance | shows |
|---|---|---|
| `server` | 2 servers, 2 requests, 1 namespace, one fault, one idled pod, 1 second of shutdown | `TypeOK`; `StartWakes`: a start answered with 200 has woken Jenkins; `AllOrNothing`: a process that was told to stop, or has lost a server, ends; `RequestsEnd`: no request stays for ever |
| `server_shutdown` | 1 request, no fault, 5 seconds | violates `GracefulShutdown` |

Bounds. Two requests race for one pod; a second namespace would not interact. Two
servers are the one that fails and the one that must follow. Deadlock is not checked:
the process may end.

Fairness. Weak, of the process's own steps, of each server's goroutines, and of each
request's step: the calls to the idler, the tenant and the auth service have a
timeout. None for requests, signals and failures.

Finding. `server_shutdown` (`main.go:170`): the context with the timeout of the shutdown
is derived from the one that was just cancelled, so that Shutdown returns at once and the
requests in flight are cut, against the test's "API router should shutdown gracefully"
(`main_test.go:122`) and the 5 seconds of `main.go:35`.

`LifecycleProofs` proves `TypeCorrect`, `Wakes` (`[]StartWakes`) and `NoHalf` for any number of
servers, requests and namespaces. `StartWakes` is inductive with the types: the unidle call
leaves no pod idle that it is answered 200 for, a state read as running adds a
namespace at the moment it runs, and only the idler makes a pod idle. `NoHalf` is the
safety part of `AllOrNothing`: a server that does not serve has cancelled the context or
the process has ended, and as long as neither has happened every worker runs.

## What the proofs rest on

Every theorem is about `Spec`, without fairness, and uses only the named ASSUMEs of
the modules: bounds are natural numbers, special values are outside the sets they
extend, the set of proxies is finite. Nothing else is assumed about the size of any set.
Every invariant, action property and refinement of a passing run is proved. Where an
argument would go by induction, over the counters' spreads or the number of pairs, the
proofs take the least number of a set instead (`LeastNumber`, from the well-foundedness
of `<`), since the induction theorems need an operator as a parameter. Out of the prover's
reach, and checked by TLC alone, is liveness under fairness: `BufferDrains`,
`ReachesPage`, `CheckEnds`, `KeysArrive`, `LookupEnds`, `AllOrNothing` and `RequestsEnd`.

The external side is modelled from how the code uses it. Two library behaviours
matter: gorm's `Save` in the vendored v1.0 is a plain UPDATE when the key is set, so
that it does not insert a row that is gone, and net/http recovers a panic of a
handler but nobody recovers one of the replay loop.

## Plan

Done: the webhook path, the user interface, authentication keys, usage statistics,
owner lookup, the Jenkins API and the life cycle, with the proofs described. Left:

1. The composition of the owner lookup with the webhook path: `ResolveOwner` and
   `CheckRow` already allow every answer `OwnerLookup` can give, a former owner's and a
   failure included, so it would restate them; it is worth it only with a property
   about staleness across both.
2. Refinements for the owner lookup (a cache of bounded staleness) and the life cycle.
3. `BufferDrains` with faults and crashes in its premise, on a graph that TLC can hold.

## Not modelled

The configuration, read once from the environment: what the behaviour depends on is a
constant of the modules. Metrics and logging, which are only written. The statistics API,
two queries and their encoding (a database error is answered with 200, `api.go:46`). The routers of the other servers and the version.
Token and URL utilities, which are stateless. The `osio` command line tool, which the
proxy does not use. Test helpers, mocks and deployment files. They keep no state that
the properties speak of.
