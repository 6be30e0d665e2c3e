---------------------------- MODULE RefreshProofs ----------------------------
(***************************************************************************)
(* Theorems of Refresh, for any subscriptions, URLs and goroutines.        *)
(***************************************************************************)
EXTENDS Refresh, TLAPS

-----------------------------------------------------------------------------
(* Types.                                                                  *)

\* A worker at rest has its type.
LEMMA IdleTyped == Idle \in Job /\ Idle.step = "idle"
BY DEF Idle, Job, Maybe

\* At first.
LEMMA InitTyped == Init => TypeOK
<1> SUFFICES ASSUME Init PROVE TypeOK
  OBVIOUS
<1>1. {subs, saved} \subseteq [Name -> Maybe(Url)] /\ {res, cache, doc} \subseteq [Name -> Maybe(Result)]
  BY DEF Init, Nothing, Maybe
<1>2. job \in [Worker -> Job] /\ \A w \in Worker : job[w].step = "idle"
  BY IdleTyped DEF Init
<1>3. ui \in [step : {"idle", "drop", "save"}, name : Maybe(Name)] /\ ui.step = "idle"
  BY DEF Init, Still, Maybe
<1> QED
  BY <1>1, <1>2, <1>3 DEF Init, TypeOK, Job

\* What the user begins.
LEMMA UserTyped ==
    ASSUME TypeOK, UserStep PROVE TypeOK'
<1>1. CASE OpenForm
  BY <1>1 DEF TypeOK, OpenForm
<1>2. CASE Leave
  BY <1>2 DEF TypeOK, Leave
<1>3. CASE Back
  BY <1>3 DEF TypeOK, Back
<1>4. CASE Relaunch
  BY <1>4 DEF TypeOK, Job, Relaunch, Nothing, Idle, Still, Maybe
<1>5. ASSUME NEW n \in Name, DeleteSub(n) PROVE TypeOK'
  BY <1>5 DEF TypeOK, Job, DeleteSub, User, Maybe
<1>6. ASSUME NEW n \in Name, NEW u \in Url, AddSub(n, u) PROVE TypeOK'
  BY <1>6 DEF TypeOK, Job, AddSub, User, Maybe
<1>7. ASSUME NEW n \in Name, NEW w \in Worker, Press(n, w) PROVE TypeOK'
  <2> DEFINE new == [Idle EXCEPT !.step = "look", !.name = n]
  <2>1. new \in Job /\ new.step = "look" /\ new.name = n
    BY DEF Idle, Job, Maybe
  <2>2. job \in [Worker -> Job] /\ job' = [job EXCEPT ![w] = new]
    BY <1>7 DEF TypeOK, Job, Press
  <2> HIDE DEF new
  <2> QED
    BY <1>7, <2>1, <2>2 DEF TypeOK, Job, Press, User, Job
<1>8. CASE ClearCache
  BY <1>8 DEF TypeOK, Job, ClearCache, User, Maybe
<1> QED
  BY <1>1, <1>2, <1>3, <1>4, <1>5, <1>6, <1>7, <1>8 DEF UserStep

\* What the UI goroutine does.
LEMMA UiTyped ==
    ASSUME TypeOK, UiStep PROVE TypeOK'
<1>1. CASE Drop
  BY <1>1 DEF TypeOK, Job, Drop, Maybe
<1>2. CASE SaveChange
  BY <1>2 DEF TypeOK, Job, SaveChange, Still, Maybe
<1>3. CASE Assemble
  BY <1>3 DEF TypeOK, Job, Assemble, Emitted, Maybe
<1> QED
  BY <1>1, <1>2, <1>3 DEF UiStep

\* What a worker does.
LEMMA WorkerTyped ==
    ASSUME TypeOK, NEW w \in Worker, WorkerStep(w) PROVE TypeOK'
<1>1. CASE Look(w)
  <2>1. CASE subs[job[w].name] = None
    BY <1>1, <2>1 DEF TypeOK, Job, Look, At, Go, Maybe
  <2>2. CASE subs[job[w].name] # None
    <3>1. subs[job[w].name] \in Url
      BY <1>1, <2>2 DEF TypeOK, Job, Look, At, Maybe
    <3> DEFINE new == [job[w] EXCEPT !.step = "fetch", !.url = subs[job[w].name]]
    <3>2. new \in Job /\ new.step = "fetch" /\ new.name = job[w].name /\ new.url \in Url
      BY <3>1 DEF TypeOK, Job, Maybe
    <3>3. job' = [job EXCEPT ![w] = new]
      BY <1>1, <2>2 DEF TypeOK, Look
    <3> HIDE DEF new
    <3> QED
      BY <1>1, <3>2, <3>3 DEF TypeOK, Job, Look, At, Job
  <2> QED
    BY <2>1, <2>2
<1>2. CASE Fetch(w)
  <2> DEFINE got == [url |-> job[w].url, at |-> clock + 1]
             new == [job[w] EXCEPT !.step = "put", !.got = got]
  <2>1. CASE Go(w, "err") /\ UNCHANGED clock
    <3>1. At(w, "fetch") /\ UNCHANGED <<scope, subs, saved, res, cache, ui, page, owed, doc, acts>>
      BY <1>2 DEF Fetch
    <3> QED
      BY <2>1, <3>1 DEF TypeOK, Job, At, Go, Maybe
  <2>2. CASE clock' = clock + 1 /\ job' = [job EXCEPT ![w] = new]
    <3>1. got \in Result
      BY <1>2 DEF TypeOK, Job, Fetch, At, Result
    <3> HIDE DEF got
    <3>2. new \in Job /\ new.step = "put" /\ new.name = job[w].name /\ new.got \in Result
      BY <3>1 DEF TypeOK, Job, Maybe
    <3> HIDE DEF new
    <3>3. /\ job' \in [Worker -> Job]
          /\ \A v \in Worker : /\ job'[v].step # "idle" => job'[v].name \in Name
                               /\ job'[v].step = "fetch" => job'[v].url \in Url
                               /\ job'[v].step \in {"put", "save", "file"} => job'[v].got \in Result
      BY <1>2, <2>2, <3>2 DEF TypeOK, Job, Fetch, At
    <3> QED
      BY <1>2, <2>2, <3>3 DEF TypeOK, Fetch
  <2>3. job[w] \in Job /\ [job EXCEPT ![w].step = "put", ![w].got = got] = [job EXCEPT ![w] = new]
    BY DEF TypeOK
  <2> QED
    BY <1>2, <2>1, <2>2, <2>3 DEF Fetch
<1>3. CASE Put(w)
  BY <1>3 DEF TypeOK, Job, Put, At, Go, Maybe
<1>4. CASE SaveStamp(w)
  BY <1>4 DEF TypeOK, Job, SaveStamp, At, Go, Maybe
<1>5. CASE WriteFile(w)
  BY <1>5 DEF TypeOK, Job, WriteFile, At, Go, Maybe
<1>6. CASE Answer(w)
  BY <1>6 DEF TypeOK, Job, Answer, At, Idle, Maybe
<1> QED
  BY <1>1, <1>2, <1>3, <1>4, <1>5, <1>6 DEF WorkerStep

\* Every step.
LEMMA NextTyped ==
    ASSUME TypeOK, [Next]_vars PROVE TypeOK'
<1>1. CASE UNCHANGED vars
  BY <1>1 DEF TypeOK, vars
<1> QED
  BY <1>1, UserTyped, UiTyped, WorkerTyped DEF Next

\* Every variable keeps its type, and what is fetched is a URL, however many
\* goroutines refresh (RefreshSubscription).
THEOREM TypeCorrect == Spec => []TypeOK
BY InitTyped, NextTyped, PTL DEF Spec

-----------------------------------------------------------------------------
(* Whose results are kept.  What a name was ever given is what it can be   *)
(* fetched from (Feeding), and when the user is careful every step of a    *)
(* refresh and every file agrees with the URL its name has now (Own).      *)

Feeding ==
    /\ \A n \in Name : {subs[n], saved[n]} \subseteq Maybe(scope.feeds[n])
    /\ \A n \in Name : cache[n] # None => cache[n].url \in scope.feeds[n]
    /\ \A w \in Worker :
         /\ job[w].step = "fetch" => job[w].url \in scope.feeds[job[w].name]
         /\ job[w].step \in {"put", "save", "file"} => job[w].got.url \in scope.feeds[job[w].name]

Dropping(n) == ui.step = "drop" /\ ui.name = n

Own ==
    /\ \A w \in Worker :
         /\ job[w].step = "fetch" => job[w].url = subs[job[w].name]
         /\ job[w].step \in {"put", "save", "file"} => job[w].got.url = subs[job[w].name]
         /\ job[w].step = "file" => saved[job[w].name] = subs[job[w].name]
         /\ ui.step = "drop" => job[w].step = "idle"
    /\ \A n \in Name : cache[n] # None =>
         cache[n].url = saved[n] /\ (Dropping(n) \/ subs[n] = saved[n])
    /\ ui.step = "drop" => subs[ui.name] = None

Inv == TypeOK /\ ResultsOwned /\ Feeding /\ (Careful => Own)

\* At first nobody owns anything.
LEMMA InitInv == Init => Inv
<1> SUFFICES ASSUME Init PROVE Inv
  OBVIOUS
<1>1. TypeOK
  BY InitTyped
<1>2. ResultsOwned
  BY DEF Init, ResultsOwned, Nothing
<1>3. \A w \in Worker : job[w].step = "idle"
  BY IdleTyped DEF Init
<1>4. Feeding /\ Own
  BY <1>3 DEF Init, Feeding, Own, Nothing, Maybe, Still
<1> QED
  BY <1>1, <1>2, <1>4 DEF Inv

\* A result comes with a subscription and goes with it.
LEMMA ResultsKept ==
    ASSUME TypeOK, ResultsOwned, [Next]_vars PROVE ResultsOwned'
<1>1. CASE UNCHANGED <<subs, res>>
  BY <1>1 DEF ResultsOwned
<1>2. CASE Relaunch
  BY <1>2 DEF ResultsOwned, Relaunch, Nothing
<1>3. ASSUME NEW n \in Name, DeleteSub(n) PROVE ResultsOwned'
  BY <1>3 DEF ResultsOwned, TypeOK, DeleteSub
<1>4. ASSUME NEW n \in Name, NEW u \in Url, AddSub(n, u) PROVE ResultsOwned'
  BY <1>4, NoneApart DEF ResultsOwned, TypeOK, AddSub
<1>5. CASE Assemble
  BY <1>5 DEF ResultsOwned, TypeOK, Assemble, Emitted
<1>6. ASSUME NEW w \in Worker, Put(w) PROVE ResultsOwned'
  BY <1>6 DEF ResultsOwned, TypeOK, Put, At
<1>7. ASSUME NEW w \in Worker, Look(w) \/ Fetch(w) \/ SaveStamp(w) \/ WriteFile(w) \/ Answer(w)
      PROVE  UNCHANGED <<subs, res>>
  BY <1>7 DEF Look, Fetch, SaveStamp, WriteFile, Answer
<1>8. CASE Drop \/ SaveChange \/ OpenForm \/ Leave \/ Back \/ ClearCache
  BY <1>1, <1>8 DEF Drop, SaveChange, OpenForm, Leave, Back, ClearCache
<1>9. ASSUME NEW n \in Name, NEW w \in Worker, Press(n, w) PROVE ResultsOwned'
  BY <1>1, <1>9 DEF Press
<1>10. CASE UNCHANGED vars
  BY <1>1, <1>10 DEF vars
<1> QED
  BY <1>1, <1>2, <1>3, <1>4, <1>5, <1>6, <1>7, <1>8, <1>9, <1>10 DEF Next, WorkerStep, UiStep, UserStep

\* A name has a result only while it is a subscription, whatever overlaps and
\* whatever the user does (the second look-up of RefreshSubscription).
THEOREM ResultsStayOwned == Spec => []ResultsOwned
<1>1. Init => TypeOK /\ ResultsOwned
  BY InitInv DEF Inv
<1>2. TypeOK /\ ResultsOwned /\ [Next]_vars => (TypeOK /\ ResultsOwned)'
  BY NextTyped, ResultsKept
<1> QED
  BY <1>1, <1>2, PTL DEF Spec

\* What a step of a refresh does to its own job, and to nobody else's.
LEMMA JobStep ==
    ASSUME TypeOK, NEW w \in Worker, WorkerStep(w)
    PROVE  /\ UNCHANGED <<scope, subs, ui, acts>>
           /\ \A v \in Worker : v # w => job'[v] = job[v]
           /\ \/ job'[w].step \in {"idle", "look", "done", "err"}
              \/ job'[w].name = job[w].name
           /\ job'[w].step = "fetch" =>
                job'[w].url = subs[job[w].name] /\ subs[job[w].name] # None
           /\ job'[w].step \in {"put", "save", "file"} =>
                \/ At(w, "fetch") /\ job'[w].got.url = job[w].url
                \/ job[w].step \in {"put", "save"} /\ job'[w].got = job[w].got
           /\ job[w].step # "idle"
           /\ \/ saved' = saved /\ job'[w].step # "file"
              \/ saved' = subs
           /\ \/ cache' = cache
              \/ At(w, "file") /\ cache' = [cache EXCEPT ![job[w].name] = job[w].got]
<1>0. job \in [Worker -> Job] /\ job[w] \in Job
  BY DEF TypeOK
<1>1. CASE Look(w)
  <2>1. CASE subs[job[w].name] = None
    BY <1>0, <1>1, <2>1 DEF Job, Look, At, Go
  <2>2. CASE subs[job[w].name] # None
    <3>1. job' = [job EXCEPT ![w] = [@ EXCEPT !.step = "fetch", !.url = subs[job[w].name]]]
      BY <1>0, <1>1, <2>2 DEF Look
    <3> QED
      BY <1>0, <1>1, <2>2, <3>1 DEF Job, Look, At
  <2> QED
    BY <2>1, <2>2
<1>2. CASE Fetch(w)
  <2>1. CASE Go(w, "err")
    BY <1>0, <1>2, <2>1 DEF Job, Fetch, At, Go
  <2>2. CASE ~Go(w, "err")
    <3>1. job' = [job EXCEPT ![w] = [@ EXCEPT !.step = "put", !.got = [url |-> job[w].url, at |-> clock']]]
      BY <1>0, <1>2, <2>2 DEF Fetch
    <3> QED
      BY <1>0, <1>2, <3>1 DEF Job, Fetch, At
  <2> QED
    BY <2>1, <2>2
<1>3. CASE Put(w)
  BY <1>0, <1>3 DEF Job, Put, At, Go
<1>4. CASE SaveStamp(w)
  BY <1>0, <1>4 DEF Job, SaveStamp, At, Go
<1>5. CASE WriteFile(w)
  BY <1>0, <1>5 DEF Job, WriteFile, At, Go
<1>6. CASE Answer(w)
  BY <1>0, <1>6 DEF Job, Answer, At, Idle
<1> QED
  BY <1>1, <1>2, <1>3, <1>4, <1>5, <1>6 DEF WorkerStep

\* Every step keeps what is held to URLs the name was given.
LEMMA FeedingKept ==
    ASSUME TypeOK, Feeding, [Next]_vars PROVE Feeding'
<1>1. ASSUME NEW w \in Worker, WorkerStep(w) PROVE Feeding'
  <2>1. \A n \in Name : {subs'[n], saved'[n]} \subseteq Maybe(scope'.feeds[n])
    BY <1>1, JobStep DEF Feeding
  <2>2. ASSUME NEW n \in Name, cache'[n] # None PROVE cache'[n].url \in scope'.feeds[n]
    <3>1. CASE cache' = cache
      BY <1>1, <2>2, <3>1, JobStep DEF Feeding
    <3>2. CASE At(w, "file") /\ cache' = [cache EXCEPT ![job[w].name] = job[w].got]
      <4>1. job[w].got.url \in scope.feeds[job[w].name]
        BY <3>2 DEF Feeding, At
      <4> QED
        BY <1>1, <2>2, <3>2, <4>1, JobStep DEF Feeding, TypeOK
    <3> QED
      BY <1>1, <3>1, <3>2, JobStep
  <2>3. ASSUME NEW v \in Worker
        PROVE  /\ job'[v].step = "fetch" => job'[v].url \in scope'.feeds[job'[v].name]
               /\ job'[v].step \in {"put", "save", "file"} =>
                    job'[v].got.url \in scope'.feeds[job'[v].name]
    <3>1. CASE v # w
      BY <1>1, <3>1, JobStep DEF Feeding
    <3>2. CASE v = w
      <4>1. job[w].name \in Name
        BY <1>1, JobStep DEF TypeOK
      <4>2. subs[job[w].name] \in Maybe(scope.feeds[job[w].name])
        BY <4>1 DEF Feeding
      <4> QED
        BY <1>1, <3>2, <4>1, <4>2, JobStep DEF Feeding, At, Maybe
    <3> QED
      BY <3>1, <3>2
  <2> QED
    BY <2>1, <2>2, <2>3 DEF Feeding
<1>2. CASE UNCHANGED <<scope, subs, saved, cache, job>>
  BY <1>2 DEF Feeding
<1>3. CASE Drop
  BY <1>3 DEF Feeding, TypeOK, Drop
<1>4. CASE SaveChange
  BY <1>4 DEF Feeding, SaveChange
<1>5. CASE Assemble \/ OpenForm \/ Leave \/ Back
  BY <1>2, <1>5 DEF Assemble, OpenForm, Leave, Back
<1>6. CASE Relaunch
  BY <1>6, IdleTyped DEF Feeding, Relaunch
<1>7. ASSUME NEW n \in Name, DeleteSub(n) PROVE Feeding'
  BY <1>7 DEF Feeding, TypeOK, DeleteSub, User, Maybe
<1>8. ASSUME NEW n \in Name, NEW u \in Url, AddSub(n, u) PROVE Feeding'
  BY <1>8 DEF Feeding, TypeOK, AddSub, User, Maybe
<1>9. ASSUME NEW n \in Name, NEW w \in Worker, Press(n, w) PROVE Feeding'
  <2> DEFINE new == [Idle EXCEPT !.step = "look", !.name = n]
  <2>1. new.step = "look"
    BY DEF Idle
  <2>2. job' = [job EXCEPT ![w] = new]
    BY <1>9 DEF Press
  <2> HIDE DEF new
  <2> QED
    BY <1>9, <2>1, <2>2 DEF Feeding, TypeOK, Press, User
<1>10. CASE UNCHANGED vars
  BY <1>2, <1>10 DEF vars
<1>11. CASE ClearCache
  BY <1>11 DEF Feeding, ClearCache, User
<1> QED
  BY <1>1, <1>2, <1>3, <1>4, <1>5, <1>6, <1>7, <1>8, <1>9, <1>10, <1>11 DEF Next, UiStep, UserStep

\* Every step of a careful user keeps everything owned.
LEMMA OwnKept ==
    ASSUME TypeOK, Careful, Own, [Next]_vars PROVE Own'
<1> DEFINE OwnFile(n) == cache[n] # None =>
             cache[n].url = saved[n] /\ (Dropping(n) \/ subs[n] = saved[n])
           OwnJob(w) == /\ job[w].step = "fetch" => job[w].url = subs[job[w].name]
                        /\ job[w].step \in {"put", "save", "file"} =>
                             job[w].got.url = subs[job[w].name]
                        /\ job[w].step = "file" => saved[job[w].name] = subs[job[w].name]
                        /\ ui.step = "drop" => job[w].step = "idle"
<1>0. /\ \A n \in Name : OwnFile(n)
      /\ \A w \in Worker : OwnJob(w)
      /\ ui.step = "drop" => subs[ui.name] = None
  BY DEF Own
<1>1. ASSUME NEW w \in Worker, WorkerStep(w) PROVE Own'
  <2>0. /\ job[w].name \in Name /\ ui.step # "drop" /\ UNCHANGED <<subs, ui>>
        /\ \A n \in Name : cache[n] # None => cache[n].url = saved[n] /\ subs[n] = saved[n]
    BY <1>0, <1>1, JobStep DEF TypeOK, Dropping
  <2>1. ASSUME NEW n \in Name PROVE OwnFile(n)'
    <3>1. CASE cache' = cache
      BY <1>1, <2>0, <3>1, JobStep
    <3>2. CASE At(w, "file") /\ cache' = [cache EXCEPT ![job[w].name] = job[w].got]
      <4>1. job[w].got.url = subs[job[w].name] /\ saved[job[w].name] = subs[job[w].name]
        BY <1>0, <3>2 DEF At
      <4>2. cache'[n] = IF n = job[w].name THEN job[w].got ELSE cache[n]
        BY <3>2 DEF TypeOK
      <4> QED
        BY <1>1, <2>0, <4>1, <4>2, JobStep
    <3> QED
      BY <1>1, <3>1, <3>2, JobStep
  <2>2. ASSUME NEW v \in Worker PROVE OwnJob(v)'
    <3>1. CASE v # w
      BY <1>0, <1>1, <2>0, <3>1, JobStep
    <3>2. CASE v = w
      BY <1>0, <1>1, <2>0, <3>2, JobStep DEF At
    <3> QED
      BY <3>1, <3>2
  <2> QED
    BY <2>0, <2>1, <2>2 DEF Own, Dropping
<1>2. CASE UNCHANGED <<subs, saved, cache, job, ui>>
  BY <1>2 DEF Own, Dropping
<1>3. CASE Drop
  <2>1. cache' = [cache EXCEPT ![ui.name] = None] /\ UNCHANGED <<subs, saved, job>>
    BY <1>3 DEF Drop, Careful
  <2>2. ui'.step = "save" /\ \A w \in Worker : job[w].step = "idle"
    BY <1>0, <1>3 DEF Drop, TypeOK
  <2>3. \A n \in Name : OwnFile(n)'
    BY <1>0, <2>1, <2>2 DEF TypeOK, Dropping
  <2> QED
    BY <2>1, <2>2, <2>3 DEF Own, Dropping
<1>4. CASE SaveChange
  BY <1>0, <1>4 DEF Own, Dropping, SaveChange, Still
<1>5. CASE Assemble \/ OpenForm \/ Leave \/ Back
  BY <1>2, <1>5 DEF Assemble, OpenForm, Leave, Back
<1>6. CASE Relaunch
  BY <1>0, <1>6, IdleTyped DEF Own, Dropping, Relaunch, Still
<1>7. ASSUME NEW n \in Name, DeleteSub(n) PROVE Own'
  <2>1. /\ subs' = [subs EXCEPT ![n] = None] /\ UNCHANGED <<saved, cache, job>>
        /\ ui = Still /\ ui'.step = "drop" /\ ui'.name = n /\ subs'[n] = None
        /\ \A w \in Worker : job[w].step = "idle"
    BY <1>7 DEF DeleteSub, User, Careful, InFlight, TypeOK
  <2>2. ASSUME NEW m \in Name PROVE OwnFile(m)'
    BY <1>0, <2>1 DEF TypeOK, Dropping, Still
  <2> QED
    BY <2>1, <2>2 DEF Own, Dropping
<1>8. ASSUME NEW n \in Name, NEW u \in Url, AddSub(n, u) PROVE Own'
  <2>1. /\ subs' = [subs EXCEPT ![n] = u] /\ subs[n] = None /\ UNCHANGED <<saved, cache, job>>
        /\ ui.step = "idle" /\ ui'.step = "save"
    BY <1>8 DEF AddSub, User, Still
  <2>2. ASSUME NEW m \in Name PROVE OwnFile(m)'
    <3>1. cache[m] # None => m # n
      BY <1>0, <2>1, NoneApart DEF TypeOK, Dropping, Maybe, Result
    <3> QED
      BY <1>0, <2>1, <3>1 DEF TypeOK, Dropping
  <2>3. ASSUME NEW w \in Worker PROVE OwnJob(w)'
    <3>1. job[w].step \in {"fetch", "put", "save", "file"} => job[w].name \in Name /\ job[w].name # n
      BY <1>0, <2>1, NoneApart DEF TypeOK, Result
    <3> QED
      BY <1>0, <2>1, <3>1 DEF TypeOK
  <2> QED
    BY <2>1, <2>2, <2>3 DEF Own, Dropping
<1>9. ASSUME NEW n \in Name, NEW w \in Worker, Press(n, w) PROVE Own'
  <2> DEFINE new == [Idle EXCEPT !.step = "look", !.name = n]
  <2>1. new.step = "look"
    BY DEF Idle
  <2>2. /\ job' = [job EXCEPT ![w] = new] /\ UNCHANGED <<subs, saved, cache, ui>>
        /\ ui.step = "idle"
    BY <1>9 DEF Press, User, Still
  <2> HIDE DEF new
  <2> QED
    BY <1>0, <2>1, <2>2 DEF Own, Dropping, TypeOK
<1>10. CASE UNCHANGED vars
  BY <1>2, <1>10 DEF vars
<1>11. CASE ClearCache
  BY <1>0, <1>11 DEF Own, Dropping, ClearCache, User
<1> QED
  BY <1>1, <1>2, <1>3, <1>4, <1>5, <1>6, <1>7, <1>8, <1>9, <1>10, <1>11 DEF Next, UiStep, UserStep

\* Every step keeps the invariant.
LEMMA InvKept == Inv /\ [Next]_vars => Inv'
<1> SUFFICES ASSUME Inv, [Next]_vars PROVE Inv'
  OBVIOUS
<1>1. UNCHANGED scope
  BY JobStep DEF Inv, Next, UiStep, UserStep, Drop, SaveChange, Assemble, OpenForm, Leave, Back,
                 Relaunch, DeleteSub, AddSub, ClearCache, Press, User, vars
<1>2. Careful' <=> Careful
  BY <1>1 DEF Careful
<1> QED
  BY <1>2, NextTyped, ResultsKept, FeedingKept, OwnKept DEF Inv

\* For a user who lets refreshes end, and on a disk that writes and removes its
\* cache files, each of them is of the URL config.toml has for its name
\* (saveSubResult, dropSubResult, kills and failed saves of config.toml).
THEOREM CacheIsOwned == Spec => []CacheOwned
<1>1. Inv => CacheOwned
  BY DEF Inv, Own, CacheOwned
<1> QED
  BY <1>1, InitInv, InvKept, PTL DEF Spec

-----------------------------------------------------------------------------
(* Refinement.                                                             *)

\* Initial states are Feed's.
LEMMA InitFeeds == Init => F!Init
BY DEF Init, F!Init, F!Listing, F!Nothing, Nothing

\* A result put or found is of the URL its name has now, if that is promised.
LEMMA PutIsOwn ==
    ASSUME Inv, NEW w \in Worker, At(w, "put"), subs[job[w].name] # None
    PROVE  /\ job[w].name \in Name /\ job[w].got \in Result
           /\ Strict => job[w].got.url = subs[job[w].name]
<1>1. job[w].name \in Name /\ job[w].got \in Result
  BY DEF Inv, TypeOK, At
<1>2. CASE Careful
  BY <1>1, <1>2 DEF Inv, Own, At
<1>3. CASE \A n \in Name : \A u, v \in scope.feeds[n] : u = v
  <2>1. job[w].got.url \in scope.feeds[job[w].name]
    BY DEF Inv, Feeding, At
  <2>2. subs[job[w].name] \in scope.feeds[job[w].name]
    BY <1>1 DEF Inv, Feeding, Maybe
  <2> QED
    BY <1>1, <1>3, <2>1, <2>2
<1> QED
  BY <1>1, <1>2, <1>3 DEF Strict

\* A cache file that an assembly finds is of the subscription's own URL.
LEMMA FoundIsOwn ==
    ASSUME Inv, NEW n \in Name, subs[n] # None, cache[n] # None
    PROVE  Strict => cache[n].url = subs[n]
<1>1. CASE Careful
  <2>1. ~Dropping(n)
    BY <1>1 DEF Inv, Own, Dropping
  <2> QED
    BY <1>1, <2>1 DEF Inv, Own
<1>2. CASE \A m \in Name : \A u, v \in scope.feeds[m] : u = v
  <2>1. cache[n].url \in scope.feeds[n] /\ subs[n] \in scope.feeds[n]
    BY DEF Inv, Feeding, Maybe
  <2> QED
    BY <1>2, <2>1
<1> QED
  BY <1>1, <1>2 DEF Strict

\* Every step is one of Feed's or a stutter.
LEMMA NextFeeds == Inv /\ Inv' /\ [Next]_vars => [F!Next]_F!vars
<1> SUFFICES ASSUME Inv, Inv', [Next]_vars PROVE [F!Next]_F!vars
  OBVIOUS
<1>0. /\ UNCHANGED scope /\ Strict' = Strict
      /\ res \in [Name -> F!Result \union {None}] /\ res' \in [Name -> F!Result \union {None}]
  <2>1. UNCHANGED scope
    BY JobStep DEF Inv, Next, UiStep, UserStep, Drop, SaveChange, Assemble, OpenForm, Leave, Back,
                   Relaunch, DeleteSub, AddSub, ClearCache, Press, User, vars
  <2> QED
    BY <2>1 DEF Strict, Careful, Inv, TypeOK, Maybe, Result, F!Result
<1>1. CASE UNCHANGED <<subs, res>>
  BY <1>0, <1>1 DEF F!vars
<1>2. CASE UNCHANGED subs /\ (\A n \in Name : res'[n] # res[n] =>
              res'[n] # None /\ subs[n] # None /\ (Strict => res'[n].url = subs[n]))
  BY <1>0, <1>2 DEF F!Next, F!Get
<1>3. ASSUME NEW w \in Worker, Put(w) PROVE [F!Next]_F!vars
  <2>1. CASE subs[job[w].name] = None
    BY <1>1, <1>3, <2>1 DEF Put
  <2>2. CASE subs[job[w].name] # None
    <3>1. /\ UNCHANGED subs /\ res' = [res EXCEPT ![job[w].name] = job[w].got]
          /\ At(w, "put")
      BY <1>3, <2>2 DEF Put
    <3>2. job[w].got # None /\ job[w].name \in Name /\ (Strict => job[w].got.url = subs[job[w].name])
      <4>1. job[w].got \in Result /\ job[w].name \in Name
            /\ (Strict => job[w].got.url = subs[job[w].name])
        BY <2>2, <3>1, PutIsOwn
      <4> QED
        BY <4>1, NoneApart
    <3>3. \A n \in Name : res'[n] = IF n = job[w].name THEN job[w].got ELSE res[n]
      BY <3>1 DEF Inv, TypeOK
    <3> QED
      BY <1>2, <2>2, <3>1, <3>2, <3>3
  <2> QED
    BY <2>1, <2>2
<1>4. CASE Assemble
  <2>1. ASSUME NEW n \in Name, res'[n] # res[n]
        PROVE  res'[n] = cache[n] /\ cache[n] # None /\ subs[n] # None
    BY <1>4, <2>1 DEF Assemble, Emitted
  <2>2. ASSUME NEW n \in Name, res'[n] # res[n]
        PROVE  res'[n] # None /\ subs[n] # None /\ (Strict => res'[n].url = subs[n])
    BY <2>1, <2>2, FoundIsOwn
  <2> QED
    BY <1>2, <1>4, <2>2 DEF Assemble
<1>5. CASE Relaunch
  <2>1. subs' \in F!Listing
    BY DEF Inv, TypeOK, F!Listing, Maybe
  <2> QED
    BY <1>0, <1>5, <2>1 DEF Relaunch, F!Next, F!Restart, F!Nothing, Nothing
<1>6. ASSUME NEW n \in Name, DeleteSub(n) PROVE [F!Next]_F!vars
  BY <1>0, <1>6 DEF DeleteSub, F!Next, F!Delete
<1>7. ASSUME NEW n \in Name, NEW u \in Url, AddSub(n, u) PROVE [F!Next]_F!vars
  BY <1>0, <1>7 DEF AddSub, F!Next, F!Add
<1>8. ASSUME NEW w \in Worker, Look(w) \/ Fetch(w) \/ SaveStamp(w) \/ WriteFile(w) \/ Answer(w)
      PROVE  UNCHANGED <<subs, res>>
  BY <1>8 DEF Look, Fetch, SaveStamp, WriteFile, Answer
<1>9. CASE Drop \/ SaveChange \/ OpenForm \/ Leave \/ Back \/ ClearCache
  BY <1>1, <1>9 DEF Drop, SaveChange, OpenForm, Leave, Back, ClearCache
<1>10. ASSUME NEW n \in Name, NEW w \in Worker, Press(n, w) PROVE [F!Next]_F!vars
  BY <1>1, <1>10 DEF Press
<1>11. CASE UNCHANGED vars
  BY <1>1, <1>11 DEF vars
<1> QED
  BY <1>1, <1>3, <1>4, <1>5, <1>6, <1>7, <1>8, <1>9, <1>10, <1>11
     DEF Next, WorkerStep, UiStep, UserStep

\* The session implements Feed, for any subscriptions, URLs and goroutines: it
\* never keeps a result for a name that is none, nor, where that is promised,
\* one of another URL (RefreshSubscription, DeleteSubscription, Assemble).
THEOREM RefreshFeeds == Spec => ImplementsFeed
BY InitFeeds, NextFeeds, InitInv, InvKept, PTL DEF Spec, ImplementsFeed, F!Spec
=============================================================================
