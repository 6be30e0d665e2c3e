------------------------------ MODULE Refresh -------------------------------
(***************************************************************************)
(* Pipeline.RefreshSubscription in a terminal-UI session, step by step: it *)
(* releases the mutex for the fetch and again for the two writes, while the*)
(* user deletes and adds subscriptions and leaves the page, refreshes of   *)
(* the same name overlap, writes fail and the session is killed.           *)
(*                                                                         *)
(* A result is the URL it came from and the time of its fetch.             *)
(***************************************************************************)
EXTENDS Naturals

CONSTANTS
    Name, Url,
    None,       \* no subscription, no result
    Worker,     \* goroutines that refresh
    Scopes      \* what may happen in a behaviour; see ScopesOK

ASSUME ScopesOK == \A s \in Scopes :
    /\ s.max \in Nat                            \* user actions and kills (bound)
    /\ s.feeds \in [Name -> SUBSET Url]         \* the URLs a name is ever given
    /\ s.hung \subseteq Url                     \* servers that never answer
    /\ s.fails \subseteq {"save", "file"}       \* writes and removals that may fail
    /\ s.patient \in BOOLEAN    \* no deletion during a refresh, no name refreshed twice at once
    /\ s.wander \in BOOLEAN     \* the user leaves the list during a refresh

VARIABLES
    scope,      \* the instance of this behaviour
    subs,       \* Config.Subscriptions: the URL of each name, or None
    saved,      \* the same in config.toml
    res, cache, \* Pipeline.subResults and the files of sub-cache: a result or None
    job,        \* what each goroutine is doing
    ui,         \* what is left of the key press being handled
    page,       \* where messages go: the "list", its add "form", or an "other" page
    owed,       \* a PipelineMutatedMsg is not applied yet
    doc,        \* config.yaml: the result each name is emitted from
    clock, acts \* fetches; user actions and kills (bound)

vars == <<scope, subs, saved, res, cache, job, ui, page, owed, doc, clock, acts>>

Result == [url : Url, at : Nat]

ASSUME NoneApart == None \notin Url /\ None \notin Result

Idle   == [step |-> "idle", name |-> None, url |-> None, got |-> None]
Still  == [step |-> "idle", name |-> None]
Nothing == [n \in Name |-> None]

\* The user lets a refresh end, and cache files are written and removed.
Careful == scope.patient /\ "file" \notin scope.fails

\* Every result is of its subscription's present URL.
Strict == Careful \/ \A n \in Name : \A u, v \in scope.feeds[n] : u = v

Jobs(n) == {w \in Worker : job[w].step # "idle" /\ job[w].name = n}
InFlight == \E w \in Worker : job[w].step # "idle"

Init ==
    /\ scope \in Scopes
    /\ subs = Nothing /\ saved = Nothing /\ res = Nothing /\ cache = Nothing
    /\ job = [w \in Worker |-> Idle] /\ ui = Still /\ page = "list"
    /\ owed = FALSE /\ doc = Nothing /\ clock = 0 /\ acts = 0

User == ui = Still /\ acts < scope.max /\ acts' = acts + 1 /\ UNCHANGED <<scope, clock>>

-----------------------------------------------------------------------------
(* The user, on the UI goroutine.                                          *)

OpenForm ==
    /\ ui = Still /\ page = "list" /\ (InFlight => scope.wander) /\ page' = "form"
    /\ UNCHANGED <<scope, subs, saved, res, cache, job, ui, owed, doc, clock, acts>>

Leave ==
    /\ ui = Still /\ page = "list" /\ (InFlight => scope.wander) /\ page' = "other"
    /\ UNCHANGED <<scope, subs, saved, res, cache, job, ui, owed, doc, clock, acts>>

\* Esc in the form, or back from the other page.
Back ==
    /\ ui = Still /\ page # "list" /\ page' = "list"
    /\ UNCHANGED <<scope, subs, saved, res, cache, job, ui, owed, doc, clock, acts>>

\* Enter on the form's last field: AddSubscription under the mutex, then Save.
AddSub(n, u) ==
    /\ User /\ page = "form" /\ page' = "list"
    /\ subs[n] = None /\ u \in scope.feeds[n]
    /\ subs' = [subs EXCEPT ![n] = u] /\ ui' = [step |-> "save", name |-> n]
    /\ UNCHANGED <<saved, res, cache, job, owed, doc>>

\* `d': DeleteSubscription under the mutex; the file and the save come after.
DeleteSub(n) ==
    /\ User /\ page = "list" /\ subs[n] # None /\ (scope.patient => ~InFlight)
    /\ subs' = [subs EXCEPT ![n] = None] /\ res' = [res EXCEPT ![n] = None]
    /\ ui' = [step |-> "drop", name |-> n]
    /\ UNCHANGED <<saved, cache, job, page, owed, doc>>

\* Fault: the cache file is left.
DropNot ==
    /\ ui.step = "drop" /\ ui' = [ui EXCEPT !.step = "save"]
    /\ UNCHANGED <<scope, subs, saved, res, cache, job, page, owed, doc, clock, acts>>

\* dropSubResult, whose failure is only printed.
Drop ==
    /\ ui.step = "drop" /\ ui' = [ui EXCEPT !.step = "save"]
    /\ \/ cache' = [cache EXCEPT ![ui.name] = None]
       \/ "file" \in scope.fails /\ UNCHANGED cache
    /\ UNCHANGED <<scope, subs, saved, res, job, page, owed, doc, clock, acts>>

\* Only a save that succeeds is followed by a PipelineMutatedMsg.
SaveChange ==
    /\ ui.step = "save" /\ ui' = Still
    /\ \/ saved' = subs /\ owed' = TRUE
       \/ "save" \in scope.fails /\ UNCHANGED <<saved, owed>>
    /\ UNCHANGED <<scope, subs, res, cache, job, page, doc, clock, acts>>

\* Clear, `c' on the Cache page: all files go, or those that can be removed.
ClearCache ==
    /\ User /\ page # "form"
    /\ \E kept \in SUBSET Name :
         /\ kept # {} => "file" \in scope.fails
         /\ cache' = [n \in Name |-> IF n \in kept THEN cache[n] ELSE None]
    /\ UNCHANGED <<subs, saved, res, job, ui, page, owed, doc>>

\* `u'.
Press(n, w) ==
    /\ User /\ page = "list" /\ subs[n] # None /\ job[w] = Idle
    /\ (scope.patient => Jobs(n) = {})
    /\ job' = [job EXCEPT ![w] = [Idle EXCEPT !.step = "look", !.name = n]]
    /\ UNCHANGED <<subs, saved, res, cache, ui, page, owed, doc>>

-----------------------------------------------------------------------------
(* RefreshSubscription.                                                    *)

At(w, step)   == job[w].step = step
Go(w, step)   == job' = [job EXCEPT ![w].step = step]

\* Fault: a name that is gone is fetched all the same.
LookUnchecked(w) ==
    /\ At(w, "look") /\ job' = [job EXCEPT ![w].step = "fetch", ![w].url = subs[job[w].name]]
    /\ UNCHANGED <<scope, subs, saved, res, cache, ui, page, owed, doc, clock, acts>>

\* The URL is read under the mutex.
Look(w) ==
    /\ At(w, "look")
    /\ LET u == subs[job[w].name]
       IN  IF u = None THEN Go(w, "err")
           ELSE job' = [job EXCEPT ![w].step = "fetch", ![w].url = u]
    /\ UNCHANGED <<scope, subs, saved, res, cache, ui, page, owed, doc, clock, acts>>

\* Fault: a fetch without an answer is tried again, for ever.
FetchAgain(w) ==
    /\ At(w, "fetch")
    /\ IF job[w].url \in scope.hung THEN UNCHANGED <<clock, job>>
       ELSE /\ clock' = clock + 1
            /\ job' = [job EXCEPT ![w].step = "put", ![w].got = [url |-> job[w].url, at |-> clock']]
    /\ UNCHANGED <<scope, subs, saved, res, cache, ui, page, owed, doc, acts>>

\* Fetch and Convert, without the mutex: a result, an error or the time-out.
Fetch(w) ==
    /\ At(w, "fetch")
    /\ \/ /\ job[w].url \notin scope.hung /\ clock' = clock + 1
          /\ job' = [job EXCEPT ![w].step = "put", ![w].got = [url |-> job[w].url, at |-> clock']]
       \/ Go(w, "err") /\ UNCHANGED clock
    /\ UNCHANGED <<scope, subs, saved, res, cache, ui, page, owed, doc, acts>>

\* Fault: the name is not looked up again.
PutUnchecked(w) ==
    /\ At(w, "put") /\ Go(w, "save") /\ res' = [res EXCEPT ![job[w].name] = job[w].got]
    /\ UNCHANGED <<scope, subs, saved, cache, ui, page, owed, doc, clock, acts>>

\* Under the mutex again; the name may be gone.
Put(w) ==
    /\ At(w, "put")
    /\ IF subs[job[w].name] = None THEN Go(w, "err") /\ UNCHANGED res
       ELSE Go(w, "save") /\ res' = [res EXCEPT ![job[w].name] = job[w].got]
    /\ UNCHANGED <<scope, subs, saved, cache, ui, page, owed, doc, clock, acts>>

SaveStamp(w) ==
    /\ At(w, "save")
    /\ \/ saved' = subs /\ Go(w, "file")
       \/ "save" \in scope.fails /\ UNCHANGED saved /\ Go(w, "err")
    /\ UNCHANGED <<scope, subs, res, cache, ui, page, owed, doc, clock, acts>>

\* saveSubResult, whose failure is only printed.
WriteFile(w) ==
    /\ At(w, "file") /\ Go(w, "done")
    /\ \/ cache' = [cache EXCEPT ![job[w].name] = job[w].got]
       \/ "file" \in scope.fails /\ UNCHANGED cache
    /\ UNCHANGED <<scope, subs, saved, res, ui, page, owed, doc, clock, acts>>

-----------------------------------------------------------------------------
\* Fault: the list shows the new count and nothing is applied.
AnswerQuietly(w) ==
    /\ ui = Still /\ job[w].step \in {"done", "err"} /\ job' = [job EXCEPT ![w] = Idle]
    /\ UNCHANGED <<scope, subs, saved, res, cache, ui, page, owed, doc, clock, acts>>

\* RefreshDoneMsg or RefreshErrMsg goes to whatever the Sources tab shows: the
\* form and the other page swallow it.
Answer(w) ==
    /\ ui = Still /\ job[w].step \in {"done", "err"} /\ job' = [job EXCEPT ![w] = Idle]
    /\ owed' = (owed \/ (At(w, "done") /\ page = "list"))
    /\ UNCHANGED <<scope, subs, saved, res, cache, ui, page, doc, clock, acts>>

\* Pipeline.Assemble on behalf of a PipelineMutatedMsg; results that are not in
\* memory are read from their files.
Emitted == [n \in Name |-> IF subs[n] = None THEN None
                           ELSE IF res[n] # None THEN res[n] ELSE cache[n]]

Assemble ==
    /\ owed /\ owed' = FALSE /\ doc' = Emitted
    /\ res' = [n \in Name |-> IF Emitted[n] # None THEN Emitted[n] ELSE res[n]]
    /\ UNCHANGED <<scope, subs, saved, cache, job, ui, page, clock, acts>>

\* The session is killed and launched again, which assembles.
Relaunch ==
    /\ acts < scope.max /\ acts' = acts + 1
    /\ subs' = saved /\ res' = Nothing /\ job' = [w \in Worker |-> Idle]
    /\ ui' = Still /\ page' = "list" /\ owed' = TRUE
    /\ UNCHANGED <<scope, saved, cache, doc, clock>>

WorkerStep(w) == Look(w) \/ Fetch(w) \/ Put(w) \/ SaveStamp(w) \/ WriteFile(w) \/ Answer(w)
UiStep == Drop \/ SaveChange \/ Assemble
UserStep == \/ OpenForm \/ Leave \/ Back \/ ClearCache \/ Relaunch
            \/ \E n \in Name : \/ DeleteSub(n)
                               \/ \E u \in Url : AddSub(n, u)
                               \/ \E w \in Worker : Press(n, w)

Next == (\E w \in Worker : WorkerStep(w)) \/ UiStep \/ UserStep

Spec == Init /\ [][Next]_vars

\* The scheduler runs every goroutine, and the UI loop takes every message; no
\* user need do anything.
FairSpec == Spec /\ (\A w \in Worker : WF_vars(WorkerStep(w))) /\ WF_vars(UiStep)

-----------------------------------------------------------------------------
Maybe(S) == S \union {None}
Job == [step : {"idle", "look", "fetch", "put", "save", "file", "done", "err"},
        name : Maybe(Name), url : Maybe(Url), got : Maybe(Result)]

(* Every variable has the type the code gives it; what is being fetched is *)
(* a URL (RefreshSubscription gives up on a name it does not find).        *)
TypeOK ==
    /\ scope \in Scopes
    /\ {subs, saved} \subseteq [Name -> Maybe(Url)]
    /\ {res, cache, doc} \subseteq [Name -> Maybe(Result)]
    /\ job \in [Worker -> Job]
    /\ \A w \in Worker : /\ job[w].step # "idle" => job[w].name \in Name
                         /\ job[w].step = "fetch" => job[w].url \in Url
                         /\ job[w].step \in {"put", "save", "file"} => job[w].got \in Result
    /\ ui \in [step : {"idle", "drop", "save"}, name : Maybe(Name)]
    /\ ui.step # "idle" => ui.name \in Name
    /\ page \in {"list", "form", "other"} /\ owed \in BOOLEAN /\ clock \in Nat /\ acts \in Nat

(* A name has a result only while it is a subscription, however deletions, *)
(* refreshes and assemblies interleave (the second look-up of              *)
(* RefreshSubscription).                                                   *)
ResultsOwned == \A n \in Name : res[n] # None => subs[n] # None

(* A cache file belongs to a subscription of config.toml and was fetched   *)
(* from its URL there, through failed saves, kills and names given another *)
(* URL, when no refresh is under way at a deletion and files are removed.  *)
CacheOwned == Careful =>
    \A n \in Name : cache[n] # None => cache[n].url = saved[n]

(* The session implements Feed: a result comes from the subscription's own *)
(* URL, unless a name that gets another one was deleted during a refresh or*)
(* its cache file could not be removed.                                    *)
F == INSTANCE Feed WITH strict <- Strict
ImplementsFeed == F!Spec

(* A refresh that was begun comes to an end, also when the server does not *)
(* answer, its name is deleted or its page left.                           *)
RefreshEnds == \A w \in Worker : job[w] # Idle ~> job[w] = Idle

(* What is kept is in config.yaml once everything has come to rest, if no  *)
(* save fails and the user waits at the list for refreshes to end (the     *)
(* messages of update.go:397-420).                                         *)
AppliedAtLast == <>[](scope.wander \/ "save" \in scope.fails \/ doc = Emitted)
=============================================================================
