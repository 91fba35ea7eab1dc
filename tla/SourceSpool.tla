---------------------------- MODULE SourceSpool ----------------------------
(***************************************************************************)
(* The life of a GUI session as launch_gui_workspace (workspaces.py) and   *)
(* its image see it, and the source requests between them: the buttons and *)
(* KGStagingSourceChanges write requests, service_source_requests          *)
(* (source_requests.py) performs them between two polls of the image and   *)
(* once more after its exit.  Every session has request and response       *)
(* directories of its own; the UI control spool of UiControl is shared.    *)
(* What an operation does to the staging area is in StagingArea.           *)
(***************************************************************************)
EXTENDS UiControl

VARIABLES coordinator,     \* the launch command: where it is, for which session
          lost,            \* sessions whose coordinator was killed or raised
          button,          \* of each image: the source request it waits for, or 0
          sourceAsked,     \* the session of every source request so far
          sourceRequests, sourceResponses, \* files
          performed        \* how often a source request has been performed

sourceVars == <<button, sourceAsked, sourceRequests, sourceResponses, performed>>
vars == <<uiVars, coordinator, lost, sourceVars>>

Init == /\ UiInit
        /\ coordinator = [at |-> "off", session |-> 0, listed |-> {}, id |-> 0, final |-> FALSE]
        /\ lost = {}
        /\ button = [s \in Sessions |-> 0]
        /\ sourceAsked = <<>>
        /\ sourceRequests = {} /\ sourceResponses = {}
        /\ performed = [n \in Requests |-> 0]

----------------------------------------------------------------------------
(* The image.                                                              *)

MayAsk == Len(command) + Len(sourceAsked) < MaxRequests

\* requestSourceOperation, up to its wait; the button is disabled meanwhile.
Ask(s) == /\ image[s] = "serving" /\ button[s] = 0 /\ MayAsk
          /\ sourceAsked' = Append(sourceAsked, s)
          /\ sourceRequests' = sourceRequests \cup {Len(sourceAsked')}
          /\ button' = [button EXCEPT ![s] = Len(sourceAsked')]

Press(s) == /\ Ask(s)
            /\ UNCHANGED <<uiVars, coordinator, lost, sourceResponses, performed>>

\* The UI process runs a task of the worker, which may press a button.
RunTask(r) ==
    /\ r \in tasks /\ tasks' = tasks \ {r}
    /\ \/ Ask(command[r].session)
       \/ UNCHANGED <<button, sourceAsked, sourceRequests>>
    /\ UNCHANGED <<command, expired, spool, active, image, worker, dispatched, faults,
                   coordinator, lost, sourceResponses, performed>>

Release(s) == /\ button' = [button EXCEPT ![s] = 0]
              /\ UNCHANGED <<uiVars, coordinator, lost, sourceAsked, sourceRequests, performed>>

ReadAnswer(s) == /\ button[s] \in sourceResponses
                 /\ sourceResponses' = sourceResponses \ {button[s]}
                 /\ Release(s)

\* After 30 seconds; the request stays.
GiveUp(s) == /\ button[s] # 0 /\ button[s] \notin sourceResponses
             /\ UNCHANGED sourceResponses
             /\ Release(s)

\* The processes of the image end, those of its buttons too.
End(s) == /\ Enter(s, "gone")
          /\ button' = [button EXCEPT ![s] = 0]
          /\ tasks' = {r \in tasks : command[r].session # s}
          /\ UNCHANGED <<command, expired, responses, active, dispatched, coordinator, lost,
                         sourceAsked, sourceRequests, sourceResponses, performed>>

Quit(s) == image[s] = "serving" /\ StopConnector(s) /\ End(s) /\ UNCHANGED faults

Crash(s) == /\ Alive(s) /\ Fault
            /\ worker' = [worker EXCEPT ![s] = NoWorker]
            /\ End(s)
            /\ UNCHANGED <<requests, ready>>

----------------------------------------------------------------------------
(* The coordinator.                                                        *)

At(phase) == coordinator.at = phase
Go(phase) == coordinator' = [coordinator EXCEPT !.at = phase]

\* Another session; a record whose process has gone is not active any more.
Launch == /\ At("off") /\ coordinator.session < MaxSessions
          /\ active' = IF active # 0 /\ ~Alive(active) THEN 0 ELSE active
          /\ coordinator' = [coordinator EXCEPT !.at = "recording", !.session = @ + 1]
          /\ Enter(coordinator'.session, "starting")
          /\ UNCHANGED <<command, expired, spool, worker, tasks, dispatched, faults, lost, sourceVars>>

RecordSession == /\ At("recording") /\ Go("polling")
                 /\ active' = coordinator.session
                 /\ UNCHANGED <<command, expired, spool, image, worker, tasks, dispatched,
                                faults, lost, sourceVars>>

Idle == At("polling") /\ coordinator.listed = {}

\* Mutant of Exited: the service ends with the image, without a last pass.
ExitedBefore == Idle /\ ~Alive(coordinator.session)

Exited == Idle /\ coordinator.final

\* Whether the image has exited, and then the requests there are.
Poll == LET pending == {n \in sourceRequests : sourceAsked[n] = coordinator.session}
        IN  /\ Idle /\ ~Exited
            /\ pending # {} \/ ~Alive(coordinator.session)
            /\ coordinator' = [coordinator EXCEPT !.listed = pending, !.final = ~Alive(coordinator.session)]
            /\ UNCHANGED <<uiVars, lost, sourceVars>>

\* promote_staging or reconcile_staging; failures are answered too.  What has
\* been answered before is only unlinked.
Perform(n) ==
    /\ At("polling") /\ n \in coordinator.listed
    /\ IF n \in sourceResponses
       THEN /\ sourceRequests' = sourceRequests \ {n}
            /\ coordinator' = [coordinator EXCEPT !.listed = @ \ {n}]
            /\ UNCHANGED performed
       ELSE /\ performed' = [performed EXCEPT ![n] = @ + 1]
            /\ coordinator' = [coordinator EXCEPT !.at = "responding", !.id = n, !.listed = @ \ {n}]
            /\ UNCHANGED sourceRequests
    /\ UNCHANGED <<uiVars, lost, button, sourceAsked, sourceResponses>>

Respond == /\ At("responding") /\ Go("unlinking")
           /\ sourceResponses' = sourceResponses \cup {coordinator.id}
           /\ UNCHANGED <<uiVars, lost, button, sourceAsked, sourceRequests, performed>>

Served == coordinator' = [coordinator EXCEPT !.at = "polling", !.id = 0]

\* Mutant of Unlink: the request is left to the test for its response.
KeepAnswered == /\ At("unlinking") /\ Served
                /\ UNCHANGED <<uiVars, lost, sourceVars>>

Unlink == /\ At("unlinking") /\ Served
          /\ sourceRequests' = sourceRequests \ {coordinator.id}
          /\ UNCHANGED <<uiVars, lost, button, sourceAsked, sourceResponses, performed>>

ServeSource == (\E n \in coordinator.listed : Perform(n)) \/ Respond \/ Unlink

Leave == coordinator' = [coordinator EXCEPT !.at = "off", !.listed = {}, !.id = 0, !.final = FALSE]

\* The record stays active when an orphaned image wrote the completion.
Complete == /\ Exited /\ Leave
            /\ \/ active' = 0
               \/ UNCHANGED active /\ coordinator.session > 1
            /\ UNCHANGED <<command, expired, spool, image, worker, tasks, dispatched, faults,
                           lost, sourceVars>>

\* Killed, or the spool itself failed under service_source_requests.
Lose == /\ ~At("off") /\ Fault /\ Leave
        /\ lost' = lost \cup {coordinator.session}
        /\ UNCHANGED <<command, expired, spool, active, image, worker, tasks, dispatched, sourceVars>>

Coordinator == RecordSession \/ Poll \/ ServeSource \/ Complete

----------------------------------------------------------------------------
Passes == \E r \in DOMAIN command : Expire(r)

Ui == \/ Select /\ MayAsk
      \/ \E r \in DOMAIN command : Command(r)
      \/ Passes
      \/ \E s \in Sessions : StartConnector(s) \/ Worker(s) \/ Satisfied(s)

Image == \/ \E s \in Sessions : Press(s) \/ ReadAnswer(s) \/ GiveUp(s) \/ Quit(s) \/ Crash(s)
         \/ \E r \in Requests : RunTask(r)

Next == \/ Ui /\ UNCHANGED <<coordinator, lost, sourceVars>>
        \/ Image
        \/ Launch \/ Coordinator \/ Lose

\* The worker is a loop of a running process, and time passes.  Nothing is assumed of users, of the UI process or of the commands.
SpoolSpec ==
    /\ Init /\ [][Next]_vars
    /\ \A s \in Sessions : WF_vars(Worker(s) /\ UNCHANGED <<coordinator, lost, sourceVars>>)
    /\ WF_vars(Passes /\ UNCHANGED <<coordinator, lost, sourceVars>>)

----------------------------------------------------------------------------
(* Properties.                                                             *)

\* Types.  Workers and buttons are at work only in an image that has started
\* its connector, and a coordinator is of a session that was launched.
TypeOK ==
    /\ DOMAIN command \subseteq Requests
    /\ \A r \in DOMAIN command : command[r].session \in Sessions
    /\ requests \cup responses \cup expired \cup tasks \subseteq DOMAIN command
    /\ {ready, active, coordinator.session} \subseteq 0 .. MaxSessions
    /\ \A s \in Sessions : worker[s].at # "off" \/ button[s] # 0 => image[s] = "serving"
    /\ \A s \in Sessions : image[s] # "none" => s <= coordinator.session
    /\ sourceRequests \cup sourceResponses \subseteq DOMAIN sourceAsked

\* An orphaned image may have polled the spool of its successor.
Shared == \E s \in lost : s < coordinator.session

\* A request is executed at most once, and not after its command has given it
\* up: the deadline in the envelope and the session protect it when several
\* images poll one spool, images crash between an answer and its deletion, and
\* commands time out.  While an orphaned image shares the spool, a command may
\* have been told of a session mismatch before its own image executes it.  A source request is performed at most once too, but,
\* unlike those, also when nobody waits for it any more (KGUiControlService
\* handle:, service_source_requests).
EffectsAreWanted ==
    [][/\ \A r \in Requests : dispatched'[r] # dispatched[r] =>
              /\ dispatched[r] = 0
              /\ command[r].at \in {"waiting", "interrupted"} \/ Shared
       /\ \A n \in Requests : performed'[n] # performed[n] => performed[n] = 0]_vars

Working == \E s \in Sessions : worker[s].at \notin {"off", "dead"}

\* A request does not stay in the spool of an image whose worker lives, though
\* the UI process may be stuck and its command gone: every operation ends by the
\* deadline of its request (KGUiControlService onUiFor:request:do:, wait:).
RequestsAreAnswered ==
    \A r \in Requests : r \in requests ~> (r \notin requests \/ ~Working)

\* Whatever an image asked for, it is done and answered when its coordinator
\* ends, though the image exits at any time and nothing wakes the coordinator,
\* unless the coordinator is lost (the last pass of launch_gui_workspace).
NothingIsLeftBehind ==
    \A n \in sourceRequests :
        \/ sourceAsked[n] \in lost
        \/ sourceAsked[n] = coordinator.session /\ ~At("off")
=============================================================================
