------------------------------- MODULE Bridge -------------------------------
(***************************************************************************)
(* The process that main.go puts together: the poller with its detector    *)
(* and state file, and the rules engine, joined by the bus and by the      *)
(* signal context, with main's own shutdown around them.  Every step is a  *)
(* step of Poller, of Dispatch or of main; Publish, Cancel and the end of  *)
(* the process are steps of both.  The state file outlives the process,    *)
(* the jobs of the rules engine do not.  jobKeys, listed, owed, called and *)
(* faultless are history variables: no guard reads them.                   *)
(***************************************************************************)
EXTENDS Poller, Sequences

CONSTANTS
    Names,     \* what the kids are called
    NameOf,    \* kid -> name
    Rules,     \* the rules of the configuration
    MaxJobs    \* bound: events published by one process

VARIABLES
    mainPhase,                        \* where main is, after the start
    jobs, actionFailures, results,    \* the rules engine
    jobKeys,   \* job -> the <<day, kid>> its event is about
    listed,    \* the kids on the last list of categories of this process
    owed,      \* <<key, call>>: the calls this process has still to attempt
    called,    \* <<key, call>>: the calls attempted for all_completed, ever
    faultless  \* no end but main's return, no file error, so far

D == INSTANCE Dispatch WITH NoName <- NoKid, ended <- phase = "down"

ASSUME BridgeAssumption ==
    /\ MaxJobs \in Nat
    /\ NoKid \notin Names
    /\ NameOf \in [Kids -> Names]
    /\ Rules \in Seq([event : D!EventTypes, filters : D!Filters, actions : Seq(Int)])

engineVars == <<jobs, actionFailures, results>>
bridgeVars == <<mainPhase, engineVars, jobKeys, listed, owed, called, faultless>>
allVars == <<vars, bridgeVars>>

Keys == Days \X (Kids \union {NoKid})

BridgeTypeOK ==
    /\ TypeOK
    /\ D!TypeOK
    /\ mainPhase \in {"serving", "stopping", "draining"}
    /\ jobKeys \in Seq(Keys) /\ Len(jobKeys) = Len(jobs)
    /\ listed \subseteq Kids
    /\ owed \subseteq Keys \X (Nat \X Nat)
    /\ called \subseteq Keys \X (Nat \X Nat)
    /\ faultless \in BOOLEAN

NoJobs ==
    /\ jobs' = << >>
    /\ actionFailures' = 0
    /\ results' = << >>
    /\ jobKeys' = << >>
    /\ listed' = {}
    /\ owed' = {}
    /\ mainPhase' = "serving"

BridgeInit ==
    /\ Init
    /\ mainPhase = "serving"
    /\ jobs = << >>
    /\ actionFailures = 0
    /\ results = << >>
    /\ jobKeys = << >>
    /\ listed = {}
    /\ owed = {}
    /\ called = {}
    /\ faultless = TRUE

-----------------------------------------------------------------------------
(* The poller and the bus.                                                 *)

\* Only the all_completed of a kid has a key that matters.
Key(event) == <<today, event.kid>>

Announces(event) == event.type = "chore.all_completed"

\* Only a call with retries asks whether the context is cancelled.
Retried(call) == Rules[call[1]].actions[call[2]] > 1

\* The calls that the rules ask for when a kid is announced: those of rules
\* with a filter on the kid's name only if the last list of categories named
\* the kid, those with retries only if no signal came.
CallsFor(kid) ==
    {call \in D!Expected([type |-> "chore.all_completed", kid |-> kid,
                          named |-> kid \in listed]) :
        ctxDone => ~Retried(call)}

Owe(e) ==
    owed' = IF Announces(e) THEN owed \union ({Key(e)} \X CallsFor(e.subject))
            ELSE owed

\* Mutant: the chore's id is handed over for its assignee's.
BridgePublishSubject(e) ==
    /\ Publish(e)
    /\ D!Publish([type |-> e.type, kid |-> e.subject, named |-> e.named])
    /\ jobKeys' = Append(jobKeys, Key(e))
    /\ Owe(e)
    /\ UNCHANGED <<mainPhase, listed, called, faultless>>

\* The subscription of the rules engine: the same event in both.
BridgePublish(e) ==
    /\ Publish(e)
    /\ D!Publish([type |-> e.type, kid |-> e.kid, named |-> e.named])
    /\ jobKeys' = Append(jobKeys, Key(e))
    /\ Owe(e)
    /\ UNCHANGED <<mainPhase, listed, called, faultless>>

\* MaxJobs bounds the answers of the API, so that it never holds up Publish.
BridgeDetect(chores, rewards, categories) ==
    /\ Detect(chores, rewards, categories)
    /\ Len(jobs) + Cardinality(allEvents') <= MaxJobs
    /\ listed' = IF categories = Failed THEN listed ELSE categories
    /\ UNCHANGED <<mainPhase, engineVars, jobKeys, owed, called, faultless>>

BridgeDetection ==
    \E chores \in ChoreLists \union {Failed},
       rewards \in RewardLists \union {Failed},
       categories \in (SUBSET Kids) \union {Failed} :
           BridgeDetect(chores, rewards, categories)

BridgeSave ==
    /\ Save
    /\ faultless' = (faultless /\ disk' = mem)
    /\ UNCHANGED <<mainPhase, engineVars, jobKeys, listed, owed, called>>

BridgePollStep ==
    \/ (BeginPoll \/ AbortPoll \/ UpdateMemory \/ FinishPoll) /\ UNCHANGED bridgeVars
    \/ BridgeDetection
    \/ \E e \in toPublish : BridgePublish(e)
    \/ BridgeSave

BridgeExit == Exit /\ UNCHANGED bridgeVars

-----------------------------------------------------------------------------
(* The rules engine.                                                       *)

\* The calls for all_completed events that return in this step, those given
\* up before their first attempt left out.
NewCalls ==
    UNION {{jobKeys[j]} \X
             {<<results'[j][i].rule, results'[j][i].action>> :
                 i \in {i \in DOMAIN results'[j] \ DOMAIN results[j] :
                            results'[j][i].tries > 0}} :
           j \in {j \in DOMAIN results \intersect DOMAIN results' :
                      Announces(jobs[j].event)}}

HandlerStep(j) ==
    /\ UNCHANGED vars
    /\ D!Step(j)
    /\ owed' = owed \ NewCalls
    /\ called' = called \union NewCalls
    /\ UNCHANGED <<mainPhase, jobKeys, listed, faultless>>

-----------------------------------------------------------------------------
(* main.                                                                   *)

BridgeStart ==
    /\ Start
    /\ faultless' = (faultless /\ restored')
    /\ UNCHANGED <<mainPhase, engineVars, jobKeys, listed, owed, called>>

\* The one context of NotifyContext, for the poller and for the handlers.
BridgeCancel ==
    /\ Cancel
    /\ owed' = {due \in owed : ~Retried(due[2])}
    /\ UNCHANGED <<mainPhase, engineVars, jobKeys, listed, called, faultless>>

\* ctx.Done is closed: stop(), and from then on a signal kills the process.
BeginShutdown ==
    /\ phase # "down"
    /\ mainPhase = "serving"
    /\ ctxDone
    /\ mainPhase' = "stopping"
    /\ UNCHANGED <<vars, engineVars, jobKeys, listed, owed, called, faultless>>

\* Mutant: Stop does not wait for the loop to end.
StopAtOnce ==
    /\ mainPhase = "stopping"
    /\ mainPhase' = "draining"
    /\ UNCHANGED <<vars, engineVars, jobKeys, listed, owed, called, faultless>>

\* poller.Stop waits for the loop to end.
StopPoller ==
    /\ mainPhase = "stopping"
    /\ phase = "exited"
    /\ mainPhase' = "draining"
    /\ UNCHANGED <<vars, engineVars, jobKeys, listed, owed, called, faultless>>

\* Nothing waits for the handlers that are not done.
BridgeEnds ==
    /\ ProcessEnds
    /\ NoJobs
    /\ UNCHANGED called

\* httpServer.Shutdown is back, after five seconds at the latest.
Return ==
    /\ mainPhase = "draining"
    /\ BridgeEnds
    /\ UNCHANGED faultless

Crash ==
    /\ BridgeEnds
    /\ faultless' = FALSE

MainStep == BeginShutdown \/ StopPoller \/ Return

BridgeEnvironment ==
    \/ BridgeStart
    \/ BridgeCancel
    \/ Crash
    \/ (SyncerSave \/ Midnight) /\ UNCHANGED bridgeVars

BridgeNext ==
    \/ BridgePollStep
    \/ BridgeExit
    \/ \E j \in D!JobIds : HandlerStep(j)
    \/ MainStep
    \/ BridgeEnvironment

BridgeSpec == BridgeInit /\ [][BridgeNext]_allVars

\* Poller's and Dispatch's assumptions, and that main is scheduled and
\* httpServer.Shutdown keeps to its limit.
BridgeFairness ==
    /\ WF_allVars(BridgePollStep)
    /\ SF_allVars(BridgeExit)
    /\ \A j \in 1..MaxJobs : WF_allVars(j \in D!JobIds /\ HandlerStep(j))
    /\ WF_allVars(MainStep)

BridgeFairSpec == BridgeSpec /\ BridgeFairness

-----------------------------------------------------------------------------
(* Properties.                                                             *)

\* The handler of an announcement, in the process that made it.
Handles(j, key) == jobKeys[j] = key /\ Announces(jobs[j].event)

\* An all_completed that was handed to the bus will not be again once it is in
\* the file.  While its process lives, whatever it still owes of the calls
\* that the rules ask for has a handler that is not done with them: each is
\* attempted, unless the process ends first, the handler panics, a signal came
\* before an action with retries, or the rule filters on a name that the last
\* list of categories lacked.
NothingMissed ==
    \A due \in owed :
        \E j \in D!JobIds : Handles(j, due[1]) /\ jobs[j].status # "done"

\* While nothing was lost at a stop, no action is called twice for the same
\* kid and day, over all processes.
ActionOnce == [][lossless => NewCalls \intersect called = {}]_allVars

\* A bridge that is only ever stopped by a signal, and whose file can be read
\* and written, never loses an event between the bus and the file: main waits
\* for the loop, and the loop does not end between the two.
OrderlyIsLossless == faultless => lossless

\* After a signal main returns, whatever the poller is at and however often
\* select prefers the ticker.
ShutdownReturns == ctxDone ~> phase = "down"

\* What is owed is settled in the end, unless the handler panics: the calls are
\* attempted, or the process ends, or a signal has taken them back.
AnnouncedSettles ==
    \A key \in Days \X Kids :
        (\E due \in owed : due[1] = key)
            ~> (\/ \A due \in owed : due[1] # key
                \/ \E j \in D!JobIds : Handles(j, key) /\ jobs[j].status = "panicked")

=============================================================================
