------------------------------- MODULE Browser -------------------------------
(***************************************************************************)
(* The browser of one user, with its cookies and tabs, and the waiting     *)
(* page's script (static/html/index.html). All tabs look at pages of one   *)
(* directory, so that the browser gives the cookies the proxy sets without *)
(* a Path the same path. If that is not the root (Deep), it is another one *)
(* than the root path of Jenkins' own session cookies, and an expired      *)
(* cookie without a Path does not replace them.                            *)
(***************************************************************************)
EXTENDS Pods

CONSTANTS
    Tabs,          \* tabs of the browser, each at one page
    Values,        \* cookie values: session ids of Jenkins, UUIDs of the proxy
    SessionNames,  \* names of session cookies, JSESSIONID and a suffix
    Deep           \* are the pages below a directory other than the root?

Idled == "JenkinsIdled"

ASSUME BrowserAssumption ==
    /\ Idled \notin SessionNames
    /\ Deep \in BOOLEAN

Names == SessionNames \cup {Idled}
Cookie == [name : Names, value : Values]

VARIABLES
    jar,       \* the browser's cookies
    tab,       \* what each tab shows or waits for
    xhr,       \* is the tab's request made by the waiting page's script?
    response   \* the answer on its way to each tab

browserVars == <<jar, tab, xhr, response>>

TabStates == {"ready", "sent", "auth", "waiting", "shown", "error", "blank", "stuck"}

Answers == {"none", "self", "auth", "waiting", "blank", "page", "error"}
NoResponse == [answer |-> "none", expire |-> {}, set |-> {}]

BrowserTypeOK ==
    /\ jar \subseteq Cookie
    /\ tab \in [Tabs -> TabStates]
    /\ xhr \in [Tabs -> BOOLEAN]
    /\ response \in [Tabs -> [answer : Answers, expire : SUBSET Names,
                              set : SUBSET Cookie]]

BrowserInit ==
    /\ jar = {}
    /\ tab = [t \in Tabs |-> "ready"]
    /\ xhr = [t \in Tabs |-> FALSE]
    /\ response = [t \in Tabs |-> NoResponse]

Send(t, from, script) ==
    /\ tab[t] = from
    /\ tab' = [tab EXCEPT ![t] = "sent"]
    /\ xhr' = [xhr EXCEPT ![t] = script]
    /\ UNCHANGED <<jar, response>>

Expirable(names) == IF Deep THEN names \cap {Idled} ELSE names

(* The cookies after response r: a cookie is replaced by name. *)
Stored(r) ==
    {c \in jar : c.name \notin Expirable(r.expire)
                   \cup {d.name : d \in r.set}} \cup r.set

(* What a tab shows once its page is answered. *)
PageShows ==
    [self |-> "ready", auth |-> "auth", waiting |-> "waiting",
     blank |-> "blank", page |-> "shown", error |-> "error"]

(* What the script does: it reloads on 200 and asks again on 202 and 503. A *)
(* redirect to the same page is followed; the one to the auth service fails *)
(* as it leads to another origin. There is no handler for any other status: *)
(* jQuery knows no key named default.                                       *)
ScriptDoes ==
    [self |-> "waiting", auth |-> "stuck", waiting |-> "waiting",
     blank |-> "ready", page |-> "ready", error |-> "stuck"]

Receive(t) ==
    LET r == response[t]
    IN /\ tab[t] = "sent"
       /\ r.answer # "none"
       /\ jar' = Stored(r)
       /\ tab' = [tab EXCEPT ![t] = IF xhr[t] THEN ScriptDoes[r.answer]
                                              ELSE PageShows[r.answer]]
       /\ response' = [response EXCEPT ![t] = NoResponse]
       /\ UNCHANGED xhr

(* The user reloads a page that went wrong, or goes on in Jenkins. *)
Browse(t) ==
    /\ tab[t] \in {"shown", "error", "blank", "stuck"}
    /\ tab' = [tab EXCEPT ![t] = "ready"]
    /\ UNCHANGED <<jar, xhr, response>>

=============================================================================
