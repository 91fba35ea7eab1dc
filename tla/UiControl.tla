----------------------------- MODULE UiControl -----------------------------
(***************************************************************************)
(* UI control of a GUI workspace through its spool: klibgen commands       *)
(* (ui_control.py) write requests and wait, and the worker of each image   *)
(* (KGFileUiControlConnector, KGUiControlService) lists, reads, executes,  *)
(* answers and deletes them.  The spool belongs to the workspace, so an    *)
(* image that has lost its coordinator polls it beside the image of the    *)
(* next launch.  The order in which the worker sorts request names, which  *)
(* are random, is left open.                                               *)
(***************************************************************************)
EXTENDS Naturals, Sequences

CONSTANTS MaxSessions, MaxFaults, \* bounds
          MaxRequests             \* on the requests of both spools together

ASSUME BoundsAreNaturals == {MaxSessions, MaxRequests, MaxFaults} \subseteq Nat

Sessions == 1 .. MaxSessions
Requests == 1 .. MaxRequests

VARIABLES command,    \* of the command of each request: where it is, its session
          expired,    \* requests whose deadline has passed
          requests,   \* files of the spool
          responses,  \* files too; what they say is left out
          ready,      \* session of ready.json, 0 without that file
          active,     \* session of an active workspace.json, or 0
          image, worker,
          tasks,      \* UI tasks enqueued and not yet run
          dispatched, \* how often a request has been executed
          faults

spool == <<requests, responses, ready>>
uiVars == <<command, expired, spool, active, image, worker, tasks, dispatched, faults>>

NoWorker == [at |-> "off", listed |-> {}, id |-> 0]

UiInit == /\ command = <<>>
          /\ expired = {} /\ requests = {} /\ responses = {} /\ tasks = {}
          /\ ready = 0 /\ active = 0 /\ faults = 0
          /\ image = [s \in Sessions |-> "none"]
          /\ worker = [s \in Sessions |-> NoWorker]
          /\ dispatched = [r \in Requests |-> 0]

Fault == faults < MaxFaults /\ faults' = faults + 1

----------------------------------------------------------------------------
(* The commands, numbered as they start.                                   *)

Alive(s) == image[s] \notin {"none", "gone"}

\* active_gui_sessions, and the readiness that select_gui_session asks for.
IsActive(s) == active = s /\ (Alive(s) \/ ready = s)
Selectable(s) == IsActive(s) /\ ready = s

Select == \E s \in Sessions :
              /\ Selectable(s)
              /\ command' = Append(command, [at |-> "selected", session |-> s])
              /\ UNCHANGED <<expired, spool, active, image, worker, tasks, dispatched, faults>>

Becomes(r, phase) == command' = [command EXCEPT ![r].at = phase]

Submit(r) == /\ command[r].at = "selected"
             /\ Becomes(r, "waiting")
             /\ requests' = requests \cup {r}
             /\ UNCHANGED <<expired, responses, ready, active, image, worker, tasks, dispatched, faults>>

Waits(r) == command[r].at = "waiting" /\ r \notin expired

ReadResponse(r) ==
    /\ Waits(r) /\ r \in responses
    /\ responses' = responses \ {r}
    /\ Becomes(r, "done")
    /\ UNCHANGED <<expired, requests, ready, active, image, worker, tasks, dispatched, faults>>

\* workspace.json is always there.  The request stays.
RaiseExited(r) ==
    /\ Waits(r) /\ r \notin responses
    /\ ~Alive(command[r].session) /\ ready = 0
    /\ Becomes(r, "done")
    /\ UNCHANGED <<expired, spool, active, image, worker, tasks, dispatched, faults>>

\* A late response is not looked for.
TimeOut(r) ==
    /\ command[r].at = "waiting" /\ r \in expired
    /\ requests' = requests \ {r}
    /\ Becomes(r, "done")
    /\ UNCHANGED <<expired, responses, ready, active, image, worker, tasks, dispatched, faults>>

\* Its request stays too.
Interrupt(r) ==
    /\ command[r].at = "waiting" /\ Fault
    /\ Becomes(r, "interrupted")
    /\ UNCHANGED <<expired, spool, active, image, worker, tasks, dispatched>>

Command(r) == Submit(r) \/ ReadResponse(r) \/ RaiseExited(r) \/ TimeOut(r) \/ Interrupt(r)

\* The clock; the deadline travels with the request.
Expire(r) ==
    /\ command[r].at \in {"waiting", "interrupted"} \/ \E s \in Sessions : worker[s].id = r
    /\ r \notin expired /\ expired' = expired \cup {r}
    /\ UNCHANGED <<command, spool, active, image, worker, tasks, dispatched, faults>>

----------------------------------------------------------------------------
(* KGFileUiControlConnector.                                               *)

Enter(s, phase) == image' = [image EXCEPT ![s] = phase]

ClearSpool(s) ==
    /\ image[s] = "starting" /\ Enter(s, "announcing")
    /\ requests' = {} /\ responses' = {}
    /\ UNCHANGED <<command, expired, ready, active, worker, tasks, dispatched, faults>>

WriteReady(s) ==
    /\ image[s] = "announcing" /\ ready' = s /\ Enter(s, "serving")
    /\ worker' = [worker EXCEPT ![s].at = "polling"]
    /\ UNCHANGED <<command, expired, requests, responses, active, tasks, dispatched, faults>>

StartConnector(s) == ClearSpool(s) \/ WriteReady(s)

Work(s, w) == /\ worker' = [worker EXCEPT ![s] = w]
              /\ UNCHANGED <<command, expired, ready, active, image, faults>>

List(s) == /\ worker[s].at = "polling" /\ worker[s].listed = {} /\ requests # {}
           /\ Work(s, [worker[s] EXCEPT !.listed = requests])
           /\ UNCHANGED <<requests, responses, tasks, dispatched>>

\* Nobody handles the error when the file has gone since it was listed: the
\* worker ends, and ready.json stays.
ReadRequest(s) ==
    /\ worker[s].at = "polling"
    /\ \E r \in worker[s].listed :
          Work(s, IF r \in requests
                  THEN [worker[s] EXCEPT !.at = "read", !.id = r, !.listed = @ \ {r}]
                  ELSE [NoWorker EXCEPT !.at = "dead"])
    /\ UNCHANGED <<requests, responses, tasks, dispatched>>

\* Mutant of Acceptable: the session is not compared.
AnySession(s, r) == r \notin expired

Acceptable(s, r) == command[r].session = s /\ r \notin expired

Goes(s, phase) == Work(s, [worker[s] EXCEPT !.at = phase])

\* A query, and what finds no target, is answered at once; an action is
\* enqueued for the UI process; a wait looks at the scene again and again, an
\* evaluation is a process to wait for.
Handle(s) ==
    LET r == worker[s].id
    IN  /\ worker[s].at = "read"
        /\ \/ /\ ~Acceptable(s, r) /\ Goes(s, "answering")
              /\ UNCHANGED <<tasks, dispatched>>
           \/ /\ Acceptable(s, r)
              /\ dispatched' = [dispatched EXCEPT ![r] = @ + 1]
              /\ \/ Goes(s, "answering") /\ UNCHANGED tasks
                 \/ Goes(s, "acting") /\ tasks' = tasks \cup {r}
                 \/ Goes(s, "waiting") /\ UNCHANGED tasks
        /\ UNCHANGED <<requests, responses>>

\* Mutant of EndsBy: the UI process is waited for without a limit.
EndsWhenDone(s) ==
    LET r == worker[s].id
    IN  \/ worker[s].at = "acting" /\ r \notin tasks
        \/ worker[s].at = "waiting" /\ r \in expired

\* A task that the deadline has overtaken stays enqueued.
EndsBy(s) ==
    LET r == worker[s].id
    IN  \/ worker[s].at = "acting" /\ (r \notin tasks \/ r \in expired)
        \/ worker[s].at = "waiting" /\ r \in expired

EndOperation(s) == /\ EndsBy(s) /\ Goes(s, "answering")
                   /\ UNCHANGED <<requests, responses, tasks, dispatched>>

Satisfied(s) == /\ worker[s].at = "waiting" /\ Goes(s, "answering")
                /\ UNCHANGED <<requests, responses, tasks, dispatched>>

WriteResponse(s) == /\ worker[s].at = "answering" /\ Goes(s, "deleting")
                    /\ responses' = responses \cup {worker[s].id}
                    /\ UNCHANGED <<requests, tasks, dispatched>>

\* Mutant of DeleteRequest: the request stays in the spool.
KeepRequest(s) ==
    /\ worker[s].at = "deleting"
    /\ Work(s, [worker[s] EXCEPT !.at = "polling", !.id = 0])
    /\ UNCHANGED <<requests, responses, tasks, dispatched>>

DeleteRequest(s) ==
    /\ worker[s].at = "deleting"
    /\ requests' = requests \ {worker[s].id}
    /\ Work(s, [worker[s] EXCEPT !.at = "polling", !.id = 0])
    /\ UNCHANGED <<responses, tasks, dispatched>>

Worker(s) == \/ List(s) \/ ReadRequest(s) \/ Handle(s) \/ EndOperation(s)
             \/ WriteResponse(s) \/ DeleteRequest(s)

\* Mutant of StopConnector: the worker is not terminated.
StopListing(s) == /\ requests' = {} /\ ready' = 0
                  /\ UNCHANGED worker

\* stop, on the way out of the image: whatever is in the directory goes.
StopConnector(s) == /\ requests' = {} /\ ready' = 0
                    /\ worker' = [worker EXCEPT ![s] = NoWorker]
=============================================================================
