------------------------- MODULE SourceSpoolProofs -------------------------
(* Proofs about the two spools of a GUI session, for any number of sessions, *)
(* requests and faults: what a coordinator leaves behind, and how often a    *)
(* request is executed.                                                      *)
EXTENDS SourceSpool, SequenceTheorems, TLAPS

Asking == {"selected", "waiting", "interrupted", "done"}
Commands == [at : Asking, session : Sessions]

Handling == {"read", "acting", "waiting", "answering", "deleting"}
Workers == [at : Handling \cup {"off", "dead", "polling"},
            listed : SUBSET Requests, id : 0 .. MaxRequests]

Serves == {"responding", "unlinking"}
Coordinators == [at : Serves \cup {"off", "recording", "polling"},
                 session : 0 .. MaxSessions, listed : SUBSET Requests,
                 id : 0 .. MaxRequests, final : BOOLEAN]

Images == {"none", "starting", "announcing", "serving", "gone"}

Shapes ==
    /\ command \in Seq(Commands) /\ sourceAsked \in Seq(Sessions)
    /\ Len(command) + Len(sourceAsked) <= MaxRequests
    /\ requests \subseteq 1 .. Len(command) /\ responses \subseteq 1 .. Len(command)
    /\ expired \subseteq 1 .. Len(command) /\ tasks \subseteq 1 .. Len(command)
    /\ ready \in 0 .. MaxSessions /\ active \in 0 .. MaxSessions
    /\ image \in [Sessions -> Images] /\ worker \in [Sessions -> Workers]
    /\ dispatched \in [Requests -> Nat]
    /\ coordinator \in Coordinators /\ lost \subseteq 1 .. coordinator.session
    /\ button \in [Sessions -> Nat] /\ performed \in [Requests -> Nat]
    /\ sourceRequests \subseteq 1 .. Len(sourceAsked)
    /\ sourceResponses \subseteq 1 .. Len(sourceAsked)

\* Workers and buttons of images that have started, images of sessions that
\* have, a coordinator with a session.
Started ==
    /\ coordinator.at # "off" => coordinator.session \in Sessions
    /\ \A s \in Sessions :
          /\ worker[s].at # "off" \/ button[s] # 0 => image[s] = "serving"
          /\ image[s] # "none" => s <= coordinator.session

Types == Shapes /\ Started

----------------------------------------------------------------------------
(* Lengths and fields.                                                     *)

LEMMA Bounds ==
    /\ MaxSessions \in Nat /\ MaxRequests \in Nat /\ MaxFaults \in Nat
    /\ Sessions = 1 .. MaxSessions /\ Requests = 1 .. MaxRequests
BY BoundsAreNaturals DEF Sessions, Requests

LEMMA Lengths ==
    ASSUME Shapes
    PROVE  /\ Len(command) \in Nat /\ Len(sourceAsked) \in Nat
           /\ DOMAIN command = 1 .. Len(command) /\ DOMAIN sourceAsked = 1 .. Len(sourceAsked)
           /\ 1 .. Len(command) \subseteq Requests /\ 1 .. Len(sourceAsked) \subseteq Requests
           /\ \A r \in 1 .. Len(command) : command[r] \in Commands /\ command[r].session \in Sessions
           /\ \A n \in 1 .. Len(sourceAsked) : sourceAsked[n] \in Sessions
<1>1. command \in Seq(Commands) /\ sourceAsked \in Seq(Sessions)
  BY DEF Shapes
<1>2. /\ Len(command) \in Nat /\ DOMAIN command = 1 .. Len(command)
      /\ \A r \in 1 .. Len(command) : command[r] \in Commands
  BY <1>1, LenProperties, ElementOfSeq
<1>3. /\ Len(sourceAsked) \in Nat /\ DOMAIN sourceAsked = 1 .. Len(sourceAsked)
      /\ \A n \in 1 .. Len(sourceAsked) : sourceAsked[n] \in Sessions
  BY <1>1, LenProperties, ElementOfSeq
<1>4. Len(command) <= MaxRequests /\ Len(sourceAsked) <= MaxRequests
  BY <1>2, <1>3, Bounds DEF Shapes
<1>5. 1 .. Len(command) \subseteq Requests /\ 1 .. Len(sourceAsked) \subseteq Requests
  BY <1>2, <1>3, <1>4, Bounds
<1> QED BY <1>2, <1>3, <1>5 DEF Commands

LEMMA Becoming ==
    ASSUME Shapes, NEW r \in 1 .. Len(command), NEW p \in Asking, Becomes(r, p)
    PROVE  /\ command' \in Seq(Commands) /\ Len(command') = Len(command)
           /\ \A q \in 1 .. Len(command) : command'[q].session = command[q].session
           /\ \A q \in 1 .. Len(command) : q # r => command'[q] = command[q]
           /\ command'[r].at = p
<1>1. PICK c : c = [command[r] EXCEPT !.at = p]
  OBVIOUS
<1>2. c \in Commands /\ c.at = p /\ c.session = command[r].session
  BY <1>1, Lengths DEF Commands
<1>3. command \in Seq(Commands) /\ command' = [command EXCEPT ![r] = c]
  BY <1>1 DEF Shapes, Becomes
<1>4. command' \in Seq(Commands) /\ Len(command') = Len(command)
  BY <1>2, <1>3, ExceptSeq
<1>5. command'[r] = c /\ \A q \in 1 .. Len(command) : q # r => command'[q] = command[q]
  BY <1>3, Lengths
<1> QED BY <1>2, <1>4, <1>5

\* A step that moves the command of one request.
LEMMA CommandShapes ==
    ASSUME Types, NEW r \in 1 .. Len(command), NEW p \in Asking, Becomes(r, p),
           requests' \subseteq 1 .. Len(command), responses' \subseteq 1 .. Len(command),
           UNCHANGED <<expired, ready, active, image, worker, tasks, dispatched,
                       coordinator, lost, sourceVars>>
    PROVE  Types'
<1>1. Shapes /\ Started
  BY DEF Types
<1>2. command' \in Seq(Commands) /\ Len(command') = Len(command)
  BY <1>1, Becoming
<1>3. Shapes'
  BY <1>1, <1>2 DEF Shapes, sourceVars
<1>4. Started'
  BY <1>1 DEF Started, sourceVars
<1> QED BY <1>3, <1>4 DEF Types

\* A step of one worker.
LEMMA WorkShapes ==
    ASSUME Types, NEW s \in Sessions, NEW w \in Workers, Work(s, w), image[s] = "serving",
           requests' \subseteq 1 .. Len(command), responses' \subseteq 1 .. Len(command),
           tasks' \subseteq 1 .. Len(command), dispatched' \in [Requests -> Nat],
           UNCHANGED <<coordinator, lost, sourceVars>>
    PROVE  Types' /\ worker'[s] = w /\ \A t \in Sessions : t # s => worker'[t] = worker[t]
<1>1. Shapes /\ Started
  BY DEF Types
<1>2. /\ worker' \in [Sessions -> Workers] /\ worker'[s] = w
      /\ \A t \in Sessions : t # s => worker'[t] = worker[t]
  BY <1>1 DEF Work, Shapes
<1>3. Shapes'
  BY <1>1, <1>2 DEF Shapes, sourceVars, Work
<1>4. Started'
  BY <1>1, <1>2 DEF Started, sourceVars, Work
<1> QED BY <1>2, <1>3, <1>4 DEF Types

LEMMA TypesInit == Init => Types
<1> SUFFICES ASSUME Init PROVE Types
  OBVIOUS
<1>1. NoWorker \in Workers
  BY Bounds DEF NoWorker, Workers
<1>2. /\ command = <<>> /\ sourceAsked = <<>>
      /\ Len(command) = 0 /\ Len(sourceAsked) = 0
      /\ command \in Seq(Commands) /\ sourceAsked \in Seq(Sessions)
  BY EmptySeq DEF Init, UiInit
<1>3. coordinator \in Coordinators
  BY Bounds DEF Init, Coordinators
<1>4. Shapes
  BY <1>1, <1>2, <1>3, Bounds DEF Init, UiInit, Shapes, Images
<1>5. Started
  BY DEF Init, UiInit, Started, NoWorker
<1> QED BY <1>4, <1>5 DEF Types

----------------------------------------------------------------------------
(* The invariant.                                                          *)

\* An image that has not announced itself has no commands; a worker handles a
\* request that was submitted, and only those of its own session for the first
\* time.
Fresh(s) == image[s] \in {"none", "starting", "announcing"} =>
                ready # s /\ \A r \in 1 .. Len(command) : command[r].session # s
Handles(s) ==
    worker[s].at \in Handling =>
        /\ worker[s].id \in 1 .. Len(command)
        /\ command[worker[s].id].at # "selected"
        /\ (worker[s].at = "read" /\ command[worker[s].id].session = s)
               => dispatched[worker[s].id] = 0

\* A request that was executed and is still in the spool is being answered, or
\* its worker is over.
Answering(r) ==
    LET w == worker[command[r].session]
    IN  \/ w.at \in {"off", "dead"}
        \/ w.id = r /\ w.at \in Handling \ {"read"}
Once(r) ==
    /\ r \in requests => command[r].at # "selected"
    /\ dispatched[r] # 0 =>
          /\ r \in 1 .. Len(command) /\ command[r].at # "selected"
          /\ r \in requests => Answering(r)

\* What was neither executed nor overtaken is unanswered, while its image runs
\* and no orphan has shared the spool with it.
Unanswered(r) ==
    (/\ r \in 1 .. Len(command) /\ dispatched[r] = 0 /\ r \notin expired
     /\ ~Shared /\ image[command[r].session] = "serving")
        => /\ command[r].at # "done" /\ r \notin responses
           /\ \A t \in Sessions :
                 ~(worker[t].id = r /\ worker[t].at \in Handling \ {"read"})

\* Only lost coordinators leave images behind.
Alone == \A s \in Sessions :
             Alive(s) => s \in lost \/ (s = coordinator.session /\ ~At("off"))

\* In its last pass a coordinator has listed all there will be.
LastPass ==
    coordinator.final =>
        /\ ~At("off")
        /\ coordinator.session \in Sessions => ~Alive(coordinator.session)
        /\ \A n \in sourceRequests : sourceAsked[n] = coordinator.session =>
              \/ n \in coordinator.listed
              \/ n = coordinator.id /\ coordinator.at \in Serves

\* What was performed is not listed again.
PerformedOnce ==
    /\ coordinator.listed \subseteq 1 .. Len(sourceAsked)
    /\ coordinator.at \in Serves => coordinator.id \in 1 .. Len(sourceAsked)
    /\ \A n \in 1 .. Len(sourceAsked) : sourceAsked[n] <= coordinator.session
    /\ \A n \in Requests : performed[n] # 0 =>
          /\ n \in 1 .. Len(sourceAsked)
          /\ n \notin coordinator.listed
          /\ n \in sourceRequests =>
                \/ sourceAsked[n] < coordinator.session
                \/ At("off")
                \/ n = coordinator.id /\ coordinator.at \in Serves

Spools == \A s \in Sessions : Fresh(s) /\ Handles(s)
Wanted == \A r \in Requests : Once(r) /\ Unanswered(r)
Sources == Alone /\ LastPass /\ PerformedOnce /\ NothingIsLeftBehind

Inv == Types /\ Spools /\ Wanted /\ Sources

LEMMA InvInit == Init => Inv
<1> SUFFICES ASSUME Init PROVE Inv
  OBVIOUS
<1>1. Len(command) = 0 /\ Len(sourceAsked) = 0
  BY EmptySeq DEF Init, UiInit
<1>2. Types
  BY TypesInit
<1>3. Spools
  BY <1>1, Bounds DEF Init, UiInit, Spools, Fresh, Handles, NoWorker, Handling
<1>4. Wanted
  BY <1>1, Bounds DEF Init, UiInit, Wanted, Once, Unanswered
<1>5. Sources
  BY <1>1 DEF Init, UiInit, Sources, Alone, LastPass, PerformedOnce, NothingIsLeftBehind, At, Alive, Serves
<1> QED BY <1>2, <1>3, <1>4, <1>5 DEF Inv

\* Steps of the UI side leave the sources alone: no image ends or starts.
LEMMA SourcesKeep ==
    ASSUME Shapes, Sources, UNCHANGED <<coordinator, lost, sourceVars>>,
           \A s \in Sessions : Alive(s)' => Alive(s)
    PROVE  Sources'
<1>1. Alone'
  BY DEF Sources, Alone, At
<1>2. LastPass'
  BY DEF Sources, LastPass, At, sourceVars
<1>3. PerformedOnce' /\ NothingIsLeftBehind'
  BY DEF Sources, PerformedOnce, NothingIsLeftBehind, At, sourceVars
<1> QED BY <1>1, <1>2, <1>3 DEF Sources

\* Without an orphan only the image of the present session runs.
LEMMA NotShared ==
    ASSUME Types, Alone, ~Shared, NEW s \in Sessions, Alive(s)
    PROVE  s = coordinator.session
<1>1. s <= coordinator.session /\ coordinator.session \in Nat
  BY Bounds DEF Types, Started, Shapes, Coordinators, Alive
<1> QED BY <1>1, Bounds DEF Alone, Shared

----------------------------------------------------------------------------
(* The commands.                                                           *)

LEMMA SelectStep ==
    ASSUME Inv, Select, MayAsk, UNCHANGED <<coordinator, lost, sourceVars>>
    PROVE  Inv'
<1>0. Shapes /\ Started /\ Types
  BY DEF Inv, Types
<1>1. PICK s \in Sessions : /\ Selectable(s)
                            /\ command' = Append(command, [at |-> "selected", session |-> s])
  BY DEF Select
<1>2. UNCHANGED <<expired, requests, responses, ready, active, image, worker, tasks, dispatched>>
  BY DEF Select, spool
<1>3. PICK c : c = [at |-> "selected", session |-> s]
  OBVIOUS
<1>4. c \in Commands /\ c.session = s /\ c.at = "selected" /\ command \in Seq(Commands)
  BY <1>0, <1>3 DEF Commands, Asking, Shapes
<1> DEFINE n == Len(command)
<1>5. /\ command' \in Seq(Commands) /\ Len(command') = n + 1 /\ command'[n + 1] = c
      /\ \A r \in 1 .. n : command'[r] = command[r]
  BY <1>1, <1>3, <1>4, AppendProperties
<1>6. n \in Nat /\ Len(sourceAsked) \in Nat /\ n + 1 + Len(sourceAsked) <= MaxRequests
  BY <1>0, Lengths, Bounds DEF MayAsk
<1>7. 1 .. n \subseteq 1 .. (n + 1)
  BY <1>6
<1>8. Shapes'
  BY <1>0, <1>2, <1>5, <1>6, <1>7 DEF Shapes, sourceVars
<1>9. Started'
  BY <1>0, <1>2 DEF Started, sourceVars
<1>10. ASSUME NEW t \in Sessions PROVE Fresh(t)' /\ Handles(t)'
  <2>1. Fresh(t) /\ Handles(t)
    BY DEF Inv, Spools
  <2>2. image[s] \notin {"none", "starting", "announcing"}
    BY <1>1, <1>4 DEF Inv, Spools, Fresh, Selectable
  <2>3. Fresh(t)'
    BY <1>2, <1>4, <1>5, <1>6, <2>1, <2>2 DEF Fresh
  <2>4. Handles(t)'
    BY <1>2, <1>5, <1>7, <2>1 DEF Handles
  <2> QED BY <2>3, <2>4
<1>11. ASSUME NEW r \in Requests PROVE Once(r)' /\ Unanswered(r)'
  <2>1. Once(r) /\ Unanswered(r)
    BY <1>11 DEF Inv, Wanted
  <2>2. requests \subseteq 1 .. n /\ responses \subseteq 1 .. n
    BY <1>0 DEF Shapes
  <2>3. Once(r)'
    BY <1>2, <1>5, <1>7, <2>1, <2>2 DEF Once, Answering
  <2>4. Unanswered(r)'
    <3>1. CASE r \in 1 .. n
      BY <1>2, <1>5, <2>1, <3>1 DEF Unanswered, Shared
    <3>2. CASE r = n + 1
      <4>1. r \notin responses /\ command'[r].at # "done"
        BY <1>4, <1>5, <1>6, <2>2, <3>2
      <4>2. \A t \in Sessions : worker[t].at \in Handling => worker[t].id # r
        BY <1>6, <3>2 DEF Inv, Spools, Handles
      <4> QED BY <1>2, <4>1, <4>2 DEF Unanswered
    <3>3. CASE r \notin 1 .. (n + 1)
      BY <1>5, <3>3 DEF Unanswered
    <3> QED BY <1>6, <1>11, <3>1, <3>2, <3>3, Bounds
  <2> QED BY <2>3, <2>4
<1>12. Sources'
  BY <1>0, <1>2, SourcesKeep DEF Inv, Alive
<1> QED BY <1>8, <1>9, <1>10, <1>11, <1>12 DEF Inv, Types, Spools, Wanted

\* What a command may do to its request.
LEMMA CommandStep ==
    ASSUME Inv, NEW r \in 1 .. Len(command), NEW p \in Asking \ {"selected"}, Becomes(r, p),
           requests' \in {requests, requests \cup {r}, requests \ {r}},
           r \in requests' \ requests => command[r].at = "selected",
           responses' \subseteq responses,
           p = "done" => \/ r \in expired \/ r \in responses
                         \/ ~Alive(command[r].session),
           UNCHANGED <<expired, ready, active, image, worker, tasks, dispatched,
                       coordinator, lost, sourceVars>>
    PROVE  Inv'
<1>0. Shapes /\ Started /\ Types
  BY DEF Inv, Types
<1> DEFINE n == Len(command)
<1>1. /\ Len(command') = n /\ command'[r].at = p
      /\ \A q \in 1 .. n : command'[q].session = command[q].session
      /\ \A q \in 1 .. n : q # r => command'[q] = command[q]
  BY <1>0, Becoming
<1>2. requests \subseteq 1 .. n /\ responses \subseteq 1 .. n
  BY <1>0 DEF Shapes
<1>3. requests' \subseteq 1 .. n /\ responses' \subseteq 1 .. n
  BY <1>2
<1>4. Types'
  BY <1>0, <1>3, CommandShapes
<1>5. \A q \in 1 .. n : command[q].at # "selected" => command'[q].at # "selected"
  BY <1>1
<1>6. ASSUME NEW t \in Sessions PROVE Fresh(t)' /\ Handles(t)'
  <2>1. Fresh(t) /\ Handles(t)
    BY DEF Inv, Spools
  <2>2. Fresh(t)'
    BY <1>1, <2>1 DEF Fresh
  <2>3. Handles(t)'
    BY <1>1, <1>5, <2>1 DEF Handles
  <2> QED BY <2>2, <2>3
<1>7. ASSUME NEW q \in Requests PROVE Once(q)' /\ Unanswered(q)'
  <2>1. Once(q) /\ Unanswered(q)
    BY <1>7 DEF Inv, Wanted
  <2>2. Once(q)'
    <3>1. q \in requests' => command'[q].at # "selected"
      BY <1>1, <1>2, <1>5, <2>1 DEF Once
    <3>2. ASSUME dispatched[q] # 0
          PROVE  q \in 1 .. n /\ command'[q].at # "selected" /\ (q \in requests' => Answering(q)')
      <4>1. q \in 1 .. n /\ command[q].at # "selected" /\ (q \in requests => Answering(q))
        BY <2>1, <3>2 DEF Once
      <4>2. q \in requests' => q \in requests
        BY <4>1
      <4> QED BY <1>1, <1>5, <4>1, <4>2 DEF Answering
    <3> QED BY <1>1, <3>1, <3>2 DEF Once
  <2>3. Unanswered(q)'
    <3>1. CASE q # r
      BY <1>1, <2>1, <3>1 DEF Unanswered, Shared
    <3>2. CASE q = r
      <4>1. ASSUME dispatched[r] = 0, r \notin expired, ~Shared, image[command[r].session] = "serving"
            PROVE  /\ p # "done" /\ r \notin responses
                   /\ \A t \in Sessions :
                         ~(worker[t].id = r /\ worker[t].at \in Handling \ {"read"})
        BY <2>1, <3>2, <4>1 DEF Unanswered, Alive
      <4> QED BY <1>1, <3>2, <4>1 DEF Unanswered, Shared
    <3> QED BY <3>1, <3>2
  <2> QED BY <2>2, <2>3
<1>8. Sources'
  BY <1>0, SourcesKeep DEF Inv, Alive
<1> QED BY <1>4, <1>6, <1>7, <1>8 DEF Inv, Spools, Wanted

LEMMA CommandsStep ==
    ASSUME Inv, NEW r \in DOMAIN command, Command(r), UNCHANGED <<coordinator, lost, sourceVars>>
    PROVE  Inv'
<1>0. r \in 1 .. Len(command)
  BY Lengths DEF Inv, Types
<1>1. CASE Submit(r)
  BY <1>0, <1>1, CommandStep DEF Submit, Asking
<1>2. CASE ReadResponse(r)
  BY <1>0, <1>2, CommandStep DEF ReadResponse, Asking
<1>3. CASE RaiseExited(r)
  BY <1>0, <1>3, CommandStep DEF RaiseExited, Asking, spool
<1>4. CASE TimeOut(r)
  BY <1>0, <1>4, CommandStep DEF TimeOut, Asking
<1>5. CASE Interrupt(r)
  BY <1>0, <1>5, CommandStep DEF Interrupt, Asking, spool
<1> QED BY <1>1, <1>2, <1>3, <1>4, <1>5 DEF Command

LEMMA ExpireStep ==
    ASSUME Inv, NEW r \in DOMAIN command, Expire(r), UNCHANGED <<coordinator, lost, sourceVars>>
    PROVE  Inv'
<1>0. Shapes /\ Started /\ Types
  BY DEF Inv, Types
<1>1. /\ expired' = expired \cup {r}
      /\ UNCHANGED <<command, requests, responses, ready, active, image, worker, tasks, dispatched>>
  BY DEF Expire, spool
<1>2. Types'
  BY <1>0, <1>1, Lengths DEF Types, Shapes, Started, sourceVars
<1>3. Spools'
  BY <1>1 DEF Inv, Spools, Fresh, Handles
<1>4. Wanted'
  BY <1>1 DEF Inv, Wanted, Once, Answering, Unanswered, Shared
<1>5. Sources'
  BY <1>0, <1>1, SourcesKeep DEF Inv, Alive
<1> QED BY <1>2, <1>3, <1>4, <1>5 DEF Inv

----------------------------------------------------------------------------
(* The connector and its worker.                                           *)

LEMMA ClearSpoolStep ==
    ASSUME Inv, NEW s \in Sessions, ClearSpool(s), UNCHANGED <<coordinator, lost, sourceVars>>
    PROVE  Inv'
<1>0. Shapes /\ Started /\ Types
  BY DEF Inv, Types
<1>1. /\ image[s] = "starting" /\ image' = [image EXCEPT ![s] = "announcing"]
      /\ requests' = {} /\ responses' = {}
      /\ UNCHANGED <<command, expired, ready, active, worker, tasks, dispatched>>
  BY DEF ClearSpool, Enter
<1>2. /\ image' \in [Sessions -> Images] /\ image'[s] = "announcing"
      /\ \A t \in Sessions : t # s => image'[t] = image[t]
  BY <1>0, <1>1 DEF Shapes, Images
<1>3. Types'
  BY <1>0, <1>1, <1>2 DEF Types, Shapes, Started, sourceVars
<1>4. Spools'
  BY <1>1, <1>2 DEF Inv, Spools, Fresh, Handles
<1>5. ASSUME NEW r \in Requests PROVE Once(r)' /\ Unanswered(r)'
  <2>1. Once(r) /\ Unanswered(r)
    BY <1>5 DEF Inv, Wanted
  <2>2. Once(r)'
    BY <1>1, <2>1 DEF Once
  <2>3. image'[command[r].session] = "serving" =>
            r \notin 1 .. Len(command) \/ image[command[r].session] = "serving"
    BY <1>0, <1>2, Lengths
  <2>4. Unanswered(r)'
    BY <1>1, <2>1, <2>3 DEF Unanswered, Shared
  <2> QED BY <2>2, <2>4
<1>6. Sources'
  BY <1>0, <1>1, <1>2, SourcesKeep DEF Inv, Alive
<1> QED BY <1>3, <1>4, <1>5, <1>6 DEF Inv, Wanted

LEMMA WriteReadyStep ==
    ASSUME Inv, NEW s \in Sessions, WriteReady(s), UNCHANGED <<coordinator, lost, sourceVars>>
    PROVE  Inv'
<1>0. Shapes /\ Started /\ Types
  BY DEF Inv, Types
<1>1. /\ image[s] = "announcing" /\ image' = [image EXCEPT ![s] = "serving"] /\ ready' = s
      /\ worker' = [worker EXCEPT ![s].at = "polling"]
      /\ UNCHANGED <<command, expired, requests, responses, active, tasks, dispatched>>
  BY DEF WriteReady, Enter
<1>2. /\ image' \in [Sessions -> Images] /\ image'[s] = "serving"
      /\ \A t \in Sessions : t # s => image'[t] = image[t]
  BY <1>0, <1>1 DEF Shapes, Images
<1>3. PICK w : w = [worker[s] EXCEPT !.at = "polling"]
  OBVIOUS
<1>4. w \in Workers /\ w.at = "polling"
  BY <1>0, <1>3 DEF Shapes, Workers
<1>5. worker' = [worker EXCEPT ![s] = w]
  BY <1>1, <1>3
<1>6. /\ worker' \in [Sessions -> Workers] /\ worker'[s] = w
      /\ \A t \in Sessions : t # s => worker'[t] = worker[t]
  BY <1>0, <1>4, <1>5 DEF Shapes
<1>7. Shapes'
  <2>1. ready' \in 0 .. MaxSessions
    BY <1>1, Bounds
  <2> QED BY <1>0, <1>1, <1>2, <1>6, <2>1 DEF Shapes, sourceVars
<1>8. Started'
  BY <1>0, <1>1, <1>2, <1>6 DEF Started, sourceVars
<1>9. \A r \in 1 .. Len(command) : command[r].session # s
  BY <1>1 DEF Inv, Spools, Fresh
<1>10. Spools'
  <2>1. ASSUME NEW t \in Sessions PROVE Fresh(t)'
    BY <1>1, <1>2 DEF Inv, Spools, Fresh
  <2>2. ASSUME NEW t \in Sessions PROVE Handles(t)'
    BY <1>1, <1>4, <1>6 DEF Inv, Spools, Handles, Handling
  <2> QED BY <2>1, <2>2 DEF Spools
<1>11. ASSUME NEW r \in Requests PROVE Once(r)' /\ Unanswered(r)'
  <2>1. Once(r) /\ Unanswered(r)
    BY <1>11 DEF Inv, Wanted
  <2>2. r \in 1 .. Len(command) => /\ command[r].session \in Sessions \ {s}
                                  /\ worker'[command[r].session] = worker[command[r].session]
                                  /\ image'[command[r].session] = image[command[r].session]
    BY <1>0, <1>2, <1>6, <1>9, Lengths
  <2>3. Once(r)'
    BY <1>1, <2>1, <2>2 DEF Once, Answering
  <2>4. Unanswered(r)'
    BY <1>1, <1>4, <1>6, <2>1, <2>2 DEF Unanswered, Shared, Handling
  <2> QED BY <2>3, <2>4
<1>12. Sources'
  BY <1>0, <1>1, <1>2, SourcesKeep DEF Inv, Alive
<1> QED BY <1>7, <1>8, <1>10, <1>11, <1>12 DEF Inv, Types, Wanted

\* A step of a worker that executes nothing.
LEMMA MoveStep ==
    ASSUME Inv, NEW s \in Sessions, NEW w \in Workers, Work(s, w),
           worker[s].at \notin {"off", "dead"}, UNCHANGED <<tasks, dispatched>>,
           UNCHANGED <<coordinator, lost, sourceVars>>,
           requests' \subseteq requests,
           \A r \in responses' : r \in responses \/ (r = worker[s].id /\ worker[s].at = "answering"),
           w.at = "read" => worker[s].at = "polling" /\ w.id \in requests,
           w.at \in Handling \ {"read"} =>
              /\ worker[s].at \in Handling /\ w.id = worker[s].id
              /\ worker[s].at = "read" => ~Acceptable(s, w.id),
           (worker[s].at \in Handling \ {"read"} /\ w.at \notin Handling \ {"read"})
              => worker[s].id \notin requests'
    PROVE  Inv'
<1>0. Shapes /\ Started /\ Types /\ image[s] = "serving"
  BY DEF Inv, Types, Started
<1>1. UNCHANGED <<command, expired, ready, active, image>>
  BY DEF Work
<1>2. Handles(s)
  BY DEF Inv, Spools
<1>3. requests \subseteq 1 .. Len(command) /\ responses \subseteq 1 .. Len(command)
  BY <1>0 DEF Shapes
<1>4. responses' \subseteq 1 .. Len(command)
  BY <1>2, <1>3 DEF Handles, Handling
<1>5. Types' /\ worker'[s] = w /\ \A t \in Sessions : t # s => worker'[t] = worker[t]
  <2>1. tasks' \subseteq 1 .. Len(command) /\ dispatched' \in [Requests -> Nat]
    BY <1>0 DEF Shapes
  <2> QED BY <1>0, <1>3, <1>4, <2>1, WorkShapes
<1>6. ASSUME NEW t \in Sessions PROVE Fresh(t)' /\ Handles(t)'
  <2>1. Fresh(t) /\ Handles(t)
    BY DEF Inv, Spools
  <2>2. Fresh(t)'
    BY <1>1, <2>1 DEF Fresh
  <2>3. CASE t # s
    BY <1>1, <1>5, <2>1, <2>2, <2>3 DEF Handles
  <2>4. CASE t = s
    <3>1. CASE w.at = "read"
      <4>1. w.id \in 1 .. Len(command) /\ w.id \in Requests /\ Once(w.id)
        BY <1>0, <1>3, <3>1, Lengths DEF Inv, Wanted
      <4>2. command[w.id].at # "selected"
        BY <3>1, <4>1 DEF Once
      <4>3. command[w.id].session = s => dispatched[w.id] = 0
        BY <3>1, <4>1 DEF Once, Answering, Handling
      <4> QED BY <1>1, <1>5, <2>2, <2>4, <3>1, <4>1, <4>2, <4>3 DEF Handles
    <3>2. CASE w.at \in Handling \ {"read"}
      BY <1>1, <1>2, <1>5, <2>2, <2>4, <3>2 DEF Handles
    <3>3. CASE w.at \notin Handling
      BY <1>5, <2>2, <2>4, <3>3 DEF Handles
    <3> QED BY <3>1, <3>2, <3>3
  <2> QED BY <2>3, <2>4
<1>7. ASSUME NEW r \in Requests PROVE Once(r)' /\ Unanswered(r)'
  <2>1. Once(r) /\ Unanswered(r)
    BY <1>7 DEF Inv, Wanted
  <2>2. Once(r)'
    <3>1. ASSUME r \in 1 .. Len(command), r \in requests', Answering(r) PROVE Answering(r)'
      <4>1. command[r].session \in Sessions
        BY <1>0, <3>1, Lengths
      <4> QED BY <1>1, <1>5, <3>1, <4>1 DEF Answering
    <3> QED BY <1>1, <2>1, <3>1 DEF Once
  <2>3. Unanswered(r)'
    <3> SUFFICES ASSUME r \in 1 .. Len(command), dispatched[r] = 0, r \notin expired,
                        ~Shared, image[command[r].session] = "serving"
                 PROVE  /\ command[r].at # "done" /\ r \notin responses'
                        /\ \A t \in Sessions :
                              ~(worker'[t].id = r /\ worker'[t].at \in Handling \ {"read"})
      BY <1>1 DEF Unanswered, Shared
    <3>1. /\ command[r].at # "done" /\ r \notin responses
          /\ \A t \in Sessions :
                ~(worker[t].id = r /\ worker[t].at \in Handling \ {"read"})
      BY <2>1 DEF Unanswered
    <3>2. r \notin responses'
      BY <3>1 DEF Handling
    <3>3. ASSUME w.id = r, w.at \in Handling \ {"read"} PROVE FALSE
      <4>1. worker[s].at = "read" /\ ~Acceptable(s, r)
        BY <3>1, <3>3
      <4>2. command[r].session # s /\ command[r].session \in Sessions
        BY <1>0, <4>1, Lengths DEF Acceptable
      <4>3. s = coordinator.session /\ command[r].session = coordinator.session
        BY <1>0, <4>2, NotShared DEF Inv, Sources, Alive
      <4> QED BY <4>2, <4>3
    <3> QED BY <1>5, <3>1, <3>2, <3>3
  <2> QED BY <2>2, <2>3
<1>8. Sources'
  BY <1>0, <1>1, SourcesKeep DEF Inv, Alive
<1> QED BY <1>5, <1>6, <1>7, <1>8 DEF Inv, Spools, Wanted

\* A worker executes a request.
LEMMA DispatchStep ==
    ASSUME Inv, NEW s \in Sessions, NEW p \in Handling \ {"read"}, Goes(s, p),
           worker[s].at = "read", Acceptable(s, worker[s].id),
           dispatched' = [dispatched EXCEPT ![worker[s].id] = @ + 1],
           tasks' \in {tasks, tasks \cup {worker[s].id}}, UNCHANGED <<requests, responses>>,
           UNCHANGED <<coordinator, lost, sourceVars>>
    PROVE  Inv'
<1>0. Shapes /\ Started /\ Types /\ image[s] = "serving"
  BY DEF Inv, Types, Started
<1>1. PICK i : i = worker[s].id
  OBVIOUS
<1>2. /\ i \in 1 .. Len(command) /\ i \in Requests /\ command[i].at # "selected"
      /\ command[i].session = s /\ i \notin expired
  BY <1>0, <1>1, Lengths DEF Inv, Spools, Handles, Handling, Acceptable
<1>3. PICK w : w = [worker[s] EXCEPT !.at = p]
  OBVIOUS
<1>4. w \in Workers /\ w.at = p /\ w.id = i /\ Work(s, w)
  BY <1>0, <1>1, <1>3 DEF Shapes, Workers, Goes
<1>5. /\ dispatched' \in [Requests -> Nat] /\ dispatched'[i] # 0
      /\ \A q \in Requests : q # i => dispatched'[q] = dispatched[q]
  BY <1>0, <1>1, <1>2 DEF Shapes
<1>6. Types' /\ worker'[s] = w /\ \A t \in Sessions : t # s => worker'[t] = worker[t]
  <2>1. /\ requests' \subseteq 1 .. Len(command) /\ responses' \subseteq 1 .. Len(command)
        /\ tasks' \subseteq 1 .. Len(command)
    BY <1>0, <1>1, <1>2 DEF Shapes
  <2> QED BY <1>0, <1>4, <1>5, <2>1, WorkShapes
<1>7. UNCHANGED <<command, expired, ready, active, image>>
  BY <1>4 DEF Work
<1>8. ASSUME NEW t \in Sessions PROVE Fresh(t)' /\ Handles(t)'
  <2>1. Fresh(t) /\ Handles(t)
    BY DEF Inv, Spools
  <2>2. Fresh(t)'
    BY <1>7, <2>1 DEF Fresh
  <2>3. CASE t # s
    <3>1. worker[t].at \in Handling => worker[t].id \in Requests
      BY <1>0, <2>1, Lengths DEF Handles
    <3> QED BY <1>2, <1>5, <1>6, <1>7, <2>1, <2>2, <2>3, <3>1 DEF Handles
  <2>4. CASE t = s
    BY <1>2, <1>4, <1>6, <1>7, <2>2, <2>4 DEF Handles
  <2> QED BY <2>3, <2>4
<1>9. ASSUME NEW r \in Requests PROVE Once(r)' /\ Unanswered(r)'
  <2>1. Once(r) /\ Unanswered(r)
    BY <1>9 DEF Inv, Wanted
  <2>2. CASE r = i
    <3>1. Answering(r)'
      BY <1>2, <1>4, <1>6, <1>7, <2>2 DEF Answering
    <3> QED BY <1>2, <1>5, <1>7, <2>2, <3>1 DEF Once, Unanswered
  <2>3. CASE r # i
    <3>1. ASSUME r \in 1 .. Len(command), Answering(r) PROVE Answering(r)'
      <4>1. command[r].session \in Sessions
        BY <1>0, <3>1, Lengths
      <4>2. command[r].session # s
        BY <3>1 DEF Answering
      <4> QED BY <1>6, <1>7, <3>1, <4>1, <4>2 DEF Answering
    <3>2. Once(r)'
      BY <1>5, <1>7, <2>1, <2>3, <3>1 DEF Once
    <3>3. Unanswered(r)'
      BY <1>4, <1>5, <1>6, <1>7, <2>1, <2>3 DEF Unanswered, Shared
    <3> QED BY <3>2, <3>3
  <2> QED BY <2>2, <2>3
<1>10. Sources'
  BY <1>0, <1>7, SourcesKeep DEF Inv, Alive
<1> QED BY <1>6, <1>8, <1>9, <1>10 DEF Inv, Spools, Wanted

LEMMA WorkerStep ==
    ASSUME Inv, NEW s \in Sessions, Worker(s) \/ Satisfied(s),
           UNCHANGED <<coordinator, lost, sourceVars>>
    PROVE  Inv'
<1>0. Shapes /\ worker[s] \in Workers
  BY DEF Inv, Types, Shapes
<1>1. CASE List(s)
  <2>1. PICK w : w = [worker[s] EXCEPT !.listed = requests]
    OBVIOUS
  <2>2. requests \in SUBSET Requests
    BY <1>0, Lengths DEF Shapes
  <2>3. w \in Workers /\ w.at = "polling" /\ Work(s, w)
    BY <1>0, <1>1, <2>1, <2>2 DEF List, Workers
  <2> QED BY <1>1, <2>3, MoveStep DEF List, Handling
<1>2. CASE ReadRequest(s)
  <2>1. PICK r \in worker[s].listed :
           Work(s, IF r \in requests
                   THEN [worker[s] EXCEPT !.at = "read", !.id = r, !.listed = @ \ {r}]
                   ELSE [NoWorker EXCEPT !.at = "dead"])
    BY <1>2 DEF ReadRequest
  <2>2. CASE r \in requests
    <3>1. PICK l : l = worker[s].listed \ {r}
      OBVIOUS
    <3>2. PICK w : w = [worker[s] EXCEPT !.at = "read", !.id = r, !.listed = l]
      OBVIOUS
    <3>3. r \in 0 .. MaxRequests /\ l \in SUBSET Requests
      BY <1>0, <2>1, <3>1, Bounds DEF Workers
    <3>4. w \in Workers /\ w.at = "read" /\ w.id = r /\ Work(s, w)
      BY <1>0, <2>1, <2>2, <3>1, <3>2, <3>3 DEF Workers, Handling
    <3> QED BY <1>2, <2>2, <3>4, MoveStep DEF ReadRequest, Handling
  <2>3. CASE r \notin requests
    <3>1. PICK w : w = [NoWorker EXCEPT !.at = "dead"]
      OBVIOUS
    <3>2. w \in Workers /\ w.at = "dead" /\ Work(s, w)
      BY <2>1, <2>3, <3>1, Bounds DEF Workers, NoWorker
    <3> QED BY <1>2, <3>2, MoveStep DEF ReadRequest, Handling
  <2> QED BY <2>2, <2>3
\* The worker goes on with its request.
<1>3. ASSUME NEW p \in Handling \ {"read"}, Goes(s, p), worker[s].at \in Handling,
             worker[s].at = "read" => ~Acceptable(s, worker[s].id),
             UNCHANGED <<tasks, dispatched, requests>>,
             \A r \in responses' : r \in responses \/
                (r = worker[s].id /\ worker[s].at = "answering")
      PROVE  Inv'
  <2>1. PICK w : w = [worker[s] EXCEPT !.at = p]
    OBVIOUS
  <2>2. w \in Workers /\ w.at = p /\ w.id = worker[s].id /\ Work(s, w)
    BY <1>0, <1>3, <2>1 DEF Workers, Goes
  <2> QED BY <1>3, <2>2, MoveStep DEF Handling
<1>4. CASE Handle(s)
  <2>1. CASE ~Acceptable(s, worker[s].id)
    BY <1>3, <1>4, <2>1 DEF Handle, Handling
  <2>2. CASE Acceptable(s, worker[s].id)
    <3>1. PICK p \in Handling \ {"read"} :
             /\ Goes(s, p) /\ tasks' \in {tasks, tasks \cup {worker[s].id}}
      BY <1>4, <2>2 DEF Handle, Handling
    <3> QED BY <1>4, <2>2, <3>1, DispatchStep DEF Handle
  <2> QED BY <2>1, <2>2
<1>5. CASE EndOperation(s) \/ Satisfied(s)
  BY <1>3, <1>5 DEF EndOperation, EndsBy, Satisfied, Handling
<1>6. CASE WriteResponse(s)
  BY <1>3, <1>6 DEF WriteResponse, Handling
<1>7. CASE DeleteRequest(s)
  <2>1. PICK w : w = [worker[s] EXCEPT !.at = "polling", !.id = 0]
    OBVIOUS
  <2>2. w \in Workers /\ w.at = "polling" /\ Work(s, w)
    <3>1. 0 \in 0 .. MaxRequests
      BY Bounds
    <3>2. Work(s, w)
      BY <1>7, <2>1 DEF DeleteRequest
    <3> QED BY <1>0, <2>1, <3>1, <3>2 DEF Workers
  <2> QED BY <1>7, <2>2, MoveStep DEF DeleteRequest, Handling
<1> QED BY <1>1, <1>2, <1>4, <1>5, <1>6, <1>7 DEF Worker

----------------------------------------------------------------------------
(* Buttons.                                                                *)

\* Nothing of the UI side changes, and the coordinator is where it was, or has
\* only got on with its session.
LEMMA UiKeeps ==
    ASSUME Shapes, Spools, Wanted, UNCHANGED <<command, expired, requests, responses, ready,
                                       image, worker, dispatched>>,
           Shared => Shared'
    PROVE  Spools' /\ Wanted'
<1>1. Spools'
  BY DEF Spools, Fresh, Handles
<1>2. Wanted'
  BY DEF Wanted, Once, Answering, Unanswered
<1> QED BY <1>1, <1>2

LEMMA AskStep ==
    ASSUME Inv, NEW s \in Sessions, Ask(s), tasks' \subseteq tasks,
           UNCHANGED <<command, expired, spool, active, image, worker, dispatched,
                       coordinator, lost, sourceResponses, performed>>
    PROVE  Inv'
<1>0. Shapes /\ Started /\ Types
  BY DEF Inv, Types
<1> DEFINE n == Len(sourceAsked)
<1>1. /\ sourceAsked' = Append(sourceAsked, s) /\ image[s] = "serving"
      /\ sourceRequests' = sourceRequests \cup {Len(sourceAsked')}
      /\ button' = [button EXCEPT ![s] = Len(sourceAsked')]
      /\ Len(command) + n < MaxRequests
  BY DEF Ask, MayAsk
<1>2. /\ sourceAsked' \in Seq(Sessions) /\ Len(sourceAsked') = n + 1
      /\ sourceAsked'[n + 1] = s
      /\ \A m \in 1 .. n : sourceAsked'[m] = sourceAsked[m]
  <2>1. sourceAsked \in Seq(Sessions)
    BY <1>0 DEF Shapes
  <2> QED BY <2>1, <1>1, AppendProperties
<1>3. /\ n \in Nat /\ n + 1 \in Nat /\ Len(command) + (n + 1) <= MaxRequests
      /\ 1 .. n \subseteq 1 .. (n + 1) /\ n + 1 \in 1 .. (n + 1) /\ n + 1 \in Requests
  BY <1>0, <1>1, Lengths, Bounds
<1>4. button' \in [Sessions -> Nat] /\ \A t \in Sessions : t # s => button'[t] = button[t]
  BY <1>0, <1>1, <1>2, <1>3 DEF Shapes
<1>5. sourceRequests' = sourceRequests \cup {n + 1}
  BY <1>1, <1>2
<1>6. Shapes'
  BY <1>0, <1>2, <1>3, <1>4, <1>5 DEF Shapes, spool
<1>7. Started'
  BY <1>0, <1>1, <1>4 DEF Started
<1>8. Spools' /\ Wanted'
  BY <1>0, UiKeeps DEF Inv, spool, Shared
<1>9. Sources'
  <2>1. Alive(s) /\ s <= coordinator.session
    BY <1>0, <1>1 DEF Alive, Started
  <2>2. s \in lost \/ (s = coordinator.session /\ ~At("off"))
    BY <2>1 DEF Inv, Sources, Alone
  <2>3. Alone'
    BY DEF Inv, Sources, Alone, Alive, At
  <2>4. \A m \in sourceRequests : m \in 1 .. n
    BY <1>0 DEF Shapes
  <2>5. LastPass'
    <3>1. ASSUME coordinator.final PROVE s # coordinator.session
      BY <2>1, <3>1 DEF Inv, Sources, LastPass
    <3> QED BY <1>2, <1>5, <2>4, <3>1 DEF Inv, Sources, LastPass, At, Alive
  <2>6. PerformedOnce'
    <3>1. \A m \in 1 .. (n + 1) : sourceAsked'[m] <= coordinator.session
      <4>1. \A m \in 1 .. (n + 1) : m \in 1 .. n \/ m = n + 1
        BY <1>3
      <4> QED BY <4>1, <1>2, <2>1 DEF Inv, Sources, PerformedOnce
    <3>2. ASSUME NEW m \in Requests, performed[m] # 0
          PROVE  /\ m \in 1 .. (n + 1) /\ m \notin coordinator.listed
                 /\ m \in sourceRequests' =>
                       \/ sourceAsked'[m] < coordinator.session
                       \/ At("off")
                       \/ m = coordinator.id /\ coordinator.at \in Serves
      <4>1. m \in 1 .. n /\ m # n + 1
        BY <1>3, <3>2 DEF Inv, Sources, PerformedOnce
      <4> QED BY <1>2, <1>3, <1>5, <3>2, <4>1 DEF Inv, Sources, PerformedOnce
    <3>3. \A m : m \in 1 .. n => m \in 1 .. (n + 1)
      BY <1>3
    <3>4. /\ coordinator.listed \subseteq 1 .. (n + 1)
          /\ coordinator.at \in Serves => coordinator.id \in 1 .. (n + 1)
      BY <1>2, <3>3 DEF Inv, Sources, PerformedOnce
    <3> QED BY <1>2, <3>1, <3>2, <3>4 DEF PerformedOnce, At
  <2>7. NothingIsLeftBehind'
    <3>1. ASSUME NEW m \in sourceRequests'
          PROVE  \/ sourceAsked'[m] \in lost
                 \/ sourceAsked'[m] = coordinator.session /\ ~At("off")
      <4>1. CASE m = n + 1
        BY <1>2, <2>2, <4>1
      <4>2. CASE m # n + 1
        BY <1>2, <1>5, <2>4, <3>1, <4>2 DEF Inv, Sources, NothingIsLeftBehind
      <4> QED BY <4>1, <4>2
    <3> QED BY <3>1 DEF NothingIsLeftBehind, At
  <2> QED BY <2>3, <2>5, <2>6, <2>7 DEF Sources
<1> QED BY <1>6, <1>7, <1>8, <1>9 DEF Inv, Types

\* A button stops waiting.
LEMMA ReleaseStep ==
    ASSUME Inv, NEW s \in Sessions, ReadAnswer(s) \/ GiveUp(s)
    PROVE  Inv'
<1>0. Shapes /\ Started /\ Types
  BY DEF Inv, Types
<1>1. /\ button' = [button EXCEPT ![s] = 0] /\ sourceResponses' \subseteq sourceResponses
      /\ UNCHANGED <<uiVars, coordinator, lost, sourceAsked, sourceRequests, performed>>
  BY DEF ReadAnswer, GiveUp, Release
<1>2. UNCHANGED <<command, expired, requests, responses, ready, active, image, worker, tasks, dispatched>>
  BY <1>1 DEF uiVars, spool
<1>3. button' \in [Sessions -> Nat] /\ \A t \in Sessions : button'[t] \in {button[t], 0}
  BY <1>0, <1>1 DEF Shapes
<1>4. Shapes'
  BY <1>0, <1>1, <1>2, <1>3 DEF Shapes
<1>5. Started'
  BY <1>0, <1>1, <1>2, <1>3 DEF Started
<1>6. Spools' /\ Wanted'
  BY <1>0, <1>1, <1>2, UiKeeps DEF Inv, Shared
<1>7. Sources'
  BY <1>1, <1>2 DEF Inv, Sources, Alone, LastPass, PerformedOnce, NothingIsLeftBehind, At, Alive
<1> QED BY <1>4, <1>5, <1>6, <1>7 DEF Inv, Types

\* The processes of an image end.
LEMMA EndStep ==
    ASSUME Inv, NEW s \in Sessions, Quit(s) \/ Crash(s)
    PROVE  Inv'
<1>0. Shapes /\ Started /\ Types
  BY DEF Inv, Types
<1>1. /\ image' = [image EXCEPT ![s] = "gone"] /\ button' = [button EXCEPT ![s] = 0]
      /\ worker' = [worker EXCEPT ![s] = NoWorker] /\ tasks' \subseteq tasks
      /\ requests' \subseteq requests /\ ready' \in {ready, 0}
      /\ image[s] # "none"
      /\ UNCHANGED <<command, expired, responses, active, dispatched, coordinator, lost,
                     sourceAsked, sourceRequests, sourceResponses, performed>>
  BY DEF Quit, Crash, StopConnector, End, Enter, Alive
<1>2. NoWorker \in Workers /\ NoWorker.at = "off"
  <2>1. 0 \in 0 .. MaxRequests
    BY Bounds
  <2> QED BY <2>1 DEF NoWorker, Workers
<1>3. /\ button' \in [Sessions -> Nat] /\ button'[s] = 0
      /\ worker' \in [Sessions -> Workers] /\ worker'[s] = NoWorker
      /\ image' \in [Sessions -> Images] /\ image'[s] = "gone"
      /\ \A t \in Sessions : t # s =>
            button'[t] = button[t] /\ worker'[t] = worker[t] /\ image'[t] = image[t]
  BY <1>0, <1>1, <1>2 DEF Shapes, Images
<1>4. ready' \in 0 .. MaxSessions
  BY <1>0, <1>1, Bounds DEF Shapes
<1>5. Shapes'
  BY <1>0, <1>1, <1>3, <1>4 DEF Shapes
<1>6. Started'
  <2>1. s <= coordinator.session
    BY <1>0, <1>1 DEF Started
  <2> QED BY <1>0, <1>1, <1>2, <1>3, <2>1 DEF Started
<1>7. ASSUME NEW t \in Sessions PROVE Fresh(t)' /\ Handles(t)'
  <2>1. Fresh(t) /\ Handles(t) /\ t # 0
    BY Bounds DEF Inv, Spools
  <2>2. Fresh(t)'
    BY <1>1, <1>3, <2>1 DEF Fresh
  <2>3. Handles(t)'
    BY <1>1, <1>2, <1>3, <2>1 DEF Handles, Handling
  <2> QED BY <2>2, <2>3
<1>8. ASSUME NEW r \in Requests PROVE Once(r)' /\ Unanswered(r)'
  <2>1. Once(r) /\ Unanswered(r)
    BY <1>8 DEF Inv, Wanted
  <2>2. r \in 1 .. Len(command) => command[r].session \in Sessions
    BY <1>0, Lengths
  <2>3. Once(r)'
    BY <1>1, <1>2, <1>3, <2>1, <2>2 DEF Once, Answering
  <2>4. Unanswered(r)'
    BY <1>1, <1>2, <1>3, <2>1, <2>2 DEF Unanswered, Shared, Handling
  <2> QED BY <2>3, <2>4
<1>9. \A t \in Sessions : Alive(t)' => Alive(t)
  BY <1>3 DEF Alive
<1>10. Sources'
  <2>1. Alone' /\ LastPass'
    BY <1>1, <1>9 DEF Inv, Sources, Alone, LastPass, At
  <2>2. PerformedOnce' /\ NothingIsLeftBehind'
    BY <1>1 DEF Inv, Sources, PerformedOnce, NothingIsLeftBehind, At
  <2> QED BY <2>1, <2>2 DEF Sources
<1> QED BY <1>5, <1>6, <1>7, <1>8, <1>10 DEF Inv, Types, Spools, Wanted

LEMMA ImageStep ==
    ASSUME Inv, Image
    PROVE  Inv'
<1>0. Shapes
  BY DEF Inv, Types
<1>1. ASSUME NEW s \in Sessions, Press(s) PROVE Inv'
  BY <1>1, AskStep DEF Press, uiVars
<1>2. ASSUME NEW s \in Sessions, ReadAnswer(s) \/ GiveUp(s) PROVE Inv'
  BY <1>2, ReleaseStep
<1>3. ASSUME NEW s \in Sessions, Quit(s) \/ Crash(s) PROVE Inv'
  BY <1>3, EndStep
<1>4. ASSUME NEW r \in Requests, RunTask(r) PROVE Inv'
  <2>1. tasks' \subseteq tasks /\ command[r].session \in Sessions
    BY <1>0, <1>4, Lengths DEF RunTask, Shapes
  <2>2. CASE Ask(command[r].session)
    BY <1>4, <2>1, <2>2, AskStep DEF RunTask
  <2>3. CASE UNCHANGED <<button, sourceAsked, sourceRequests>>
    <3>1. UNCHANGED <<command, expired, requests, responses, ready, active, image, worker,
                      dispatched, coordinator, lost, sourceVars>>
      BY <1>4, <2>3 DEF RunTask, spool, sourceVars
    <3>2. Types'
      BY <2>1, <3>1 DEF Inv, Types, Shapes, Started, sourceVars
    <3>3. Spools' /\ Wanted'
      BY <1>0, <3>1, UiKeeps DEF Inv, Shared
    <3>4. Sources'
      BY <1>0, <3>1, SourcesKeep DEF Inv, Alive
    <3> QED BY <3>2, <3>3, <3>4 DEF Inv
  <2> QED BY <1>4, <2>2, <2>3 DEF RunTask
<1> QED BY <1>1, <1>2, <1>3, <1>4 DEF Image

----------------------------------------------------------------------------
(* The coordinator.                                                        *)

LEMMA CoordinatorFields ==
    ASSUME Shapes
    PROVE  /\ coordinator.at \in Serves \cup {"off", "recording", "polling"}
           /\ coordinator.session \in 0 .. MaxSessions /\ coordinator.session \in Nat
           /\ coordinator.listed \subseteq Requests /\ coordinator.final \in BOOLEAN
BY Bounds DEF Shapes, Coordinators

\* A coordinator gets on with its session, or leaves.
LEMMA CoordinatorTypes ==
    ASSUME Inv, coordinator.at # "off",
           coordinator' \in Coordinators, coordinator'.session = coordinator.session,
           lost \subseteq lost', lost' \subseteq 1 .. coordinator.session,
           active' \in 0 .. MaxSessions, performed' \in [Requests -> Nat],
           sourceRequests' \subseteq sourceRequests, sourceResponses' \subseteq 1 .. Len(sourceAsked),
           UNCHANGED <<command, expired, spool, image, worker, tasks, dispatched,
                       button, sourceAsked>>
    PROVE  Types' /\ Spools' /\ Wanted'
<1>1. Shapes /\ Started
  BY DEF Inv, Types
<1>2. Types'
  BY <1>1 DEF Types, Shapes, Started, spool
<1>3. Shared => Shared'
  BY DEF Shared
<1>4. Spools' /\ Wanted'
  BY <1>1, <1>3, UiKeeps DEF Inv, spool
<1> QED BY <1>2, <1>4

LEMMA LaunchStep ==
    ASSUME Inv, Launch
    PROVE  Inv'
<1>0. Shapes /\ Started
  BY DEF Inv, Types
<1>1. PICK s : s = coordinator.session + 1
  OBVIOUS
<1>2. PICK c : c = [coordinator EXCEPT !.at = "recording", !.session = s]
  OBVIOUS
<1>3. /\ s \in Sessions /\ coordinator.session < s /\ coordinator.session \in Nat /\ s \in Nat
      /\ coordinator.at = "off" /\ coordinator \in Coordinators
  <2>1. coordinator.session \in Nat /\ coordinator.session < MaxSessions /\ coordinator.at = "off"
    BY <1>0, CoordinatorFields DEF Launch, At
  <2>2. s \in Sessions /\ coordinator.session < s /\ s \in Nat
    BY <1>1, <2>1, Bounds
  <2> QED BY <1>0, <2>1, <2>2 DEF Shapes
<1>4. /\ c \in Coordinators /\ c.at = "recording" /\ c.session = s
      /\ c.listed = coordinator.listed /\ c.id = coordinator.id /\ c.final = coordinator.final
  <2>1. s \in 0 .. MaxSessions
    BY <1>3, Bounds
  <2> QED BY <1>2, <1>3, <2>1 DEF Coordinators
<1>5. coordinator' = c /\ image' = [image EXCEPT ![s] = "starting"]
  BY <1>1, <1>2, <1>4 DEF Launch, Enter
<1>6. /\ active' \in 0 .. MaxSessions
      /\ UNCHANGED <<command, expired, requests, responses, ready, worker, tasks, dispatched, lost,
                     button, sourceAsked, sourceRequests, sourceResponses, performed>>
  BY <1>0, Bounds DEF Launch, Shapes, spool, sourceVars
<1>7. /\ image' \in [Sessions -> Images] /\ image'[s] = "starting" /\ image[s] = "none"
      /\ \A t \in Sessions : t # s => image'[t] = image[t]
  <2>1. image[s] = "none"
    BY <1>0, <1>3 DEF Started
  <2>2. "starting" \in Images /\ image \in [Sessions -> Images]
    BY <1>0 DEF Shapes, Images
  <2> QED BY <1>3, <1>5, <2>1, <2>2
<1>8. Shapes'
  <2>1. lost \subseteq 1 .. s
    BY <1>0, <1>3 DEF Shapes
  <2> QED BY <1>0, <1>4, <1>5, <1>6, <1>7, <2>1 DEF Shapes
<1>9. Started'
  <2>1. worker[s].at = "off" /\ button[s] = 0
    BY <1>0, <1>3, <1>7 DEF Started
  <2>2. ASSUME NEW t \in Sessions, image'[t] # "none" PROVE t <= s
    BY <1>0, <1>3, <1>7, <2>2, Bounds DEF Started
  <2> QED BY <1>0, <1>4, <1>5, <1>6, <1>7, <2>1, <2>2 DEF Started
<1>10. Shared => Shared'
  <2>1. \A l \in lost : l < coordinator.session => l < s
    BY <1>0, <1>3 DEF Shapes
  <2> QED BY <1>4, <1>5, <1>6, <2>1 DEF Shared
<1>11. Spools'
  BY <1>6, <1>7 DEF Inv, Spools, Fresh, Handles
<1>12. ASSUME NEW r \in Requests PROVE Once(r)' /\ Unanswered(r)'
  <2>1. Once(r) /\ Unanswered(r)
    BY <1>12 DEF Inv, Wanted
  <2>2. r \in 1 .. Len(command) => command[r].session \in Sessions
    BY <1>0, Lengths
  <2>3. Once(r)'
    BY <1>6, <2>1 DEF Once, Answering
  <2>4. Unanswered(r)'
    BY <1>6, <1>7, <1>10, <2>1, <2>2 DEF Unanswered
  <2> QED BY <2>3, <2>4
<1>13. Sources'
  <2>1. Alone'
    BY <1>3, <1>4, <1>5, <1>6, <1>7 DEF Inv, Sources, Alone, Alive, At
  <2>2. LastPass'
    BY <1>3, <1>4, <1>5 DEF Inv, Sources, LastPass, At
  <2>3. \A n \in 1 .. Len(sourceAsked) : sourceAsked[n] < s
    <3>1. ASSUME NEW n \in 1 .. Len(sourceAsked) PROVE sourceAsked[n] < s
      <4>1. sourceAsked[n] <= coordinator.session /\ sourceAsked[n] \in Nat
        BY <1>0, Lengths, Bounds DEF Inv, Sources, PerformedOnce
      <4> QED BY <1>3, <4>1
    <3> QED BY <3>1
  <2>4. \A n \in 1 .. Len(sourceAsked) : sourceAsked[n] <= s
    BY <1>0, <1>3, <2>3, Lengths, Bounds
  <2>5. PerformedOnce'
    BY <1>4, <1>5, <1>6, <2>3, <2>4 DEF Inv, Sources, PerformedOnce, Serves
  <2>6. NothingIsLeftBehind'
    BY <1>3, <1>6 DEF Inv, Sources, NothingIsLeftBehind, At
  <2> QED BY <2>1, <2>2, <2>5, <2>6 DEF Sources
<1> QED BY <1>8, <1>9, <1>11, <1>12, <1>13 DEF Inv, Types, Wanted

LEMMA RecordSessionStep ==
    ASSUME Inv, RecordSession
    PROVE  Inv'
<1>0. Shapes
  BY DEF Inv, Types
<1>1. PICK c : c = [coordinator EXCEPT !.at = "polling"]
  OBVIOUS
<1>2. /\ coordinator \in Coordinators /\ coordinator.at = "recording"
      /\ coordinator' = c
      /\ c \in Coordinators /\ c.at = "polling" /\ c.session = coordinator.session
      /\ c.listed = coordinator.listed /\ c.id = coordinator.id /\ c.final = coordinator.final
  BY <1>0, <1>1 DEF RecordSession, Go, At, Shapes, Coordinators
<1>3. active' \in 0 .. MaxSessions
  BY <1>0, CoordinatorFields DEF RecordSession
<1>4. UNCHANGED <<command, expired, spool, image, worker, tasks, dispatched, lost,
                  button, sourceAsked, sourceRequests, sourceResponses, performed>>
  BY DEF RecordSession, sourceVars
<1>5. Types' /\ Spools' /\ Wanted'
  BY <1>0, <1>2, <1>3, <1>4, CoordinatorTypes DEF Shapes
<1>6. Sources'
  BY <1>2, <1>4 DEF Inv, Sources, Alone, LastPass, PerformedOnce, NothingIsLeftBehind, At, Alive, Serves
<1> QED BY <1>5, <1>6 DEF Inv

LEMMA PollStep ==
    ASSUME Inv, Poll
    PROVE  Inv'
<1>0. Shapes
  BY DEF Inv, Types
<1>1. PICK pending : pending = {n \in sourceRequests : sourceAsked[n] = coordinator.session}
  OBVIOUS
<1>2. PICK last : last = ~Alive(coordinator.session) /\ last \in BOOLEAN
  BY DEF Alive
<1>3. PICK c : c = [coordinator EXCEPT !.listed = pending, !.final = last]
  OBVIOUS
<1>4. pending \subseteq 1 .. Len(sourceAsked) /\ pending \subseteq Requests
  BY <1>0, <1>1, Lengths DEF Shapes
<1>5. /\ coordinator \in Coordinators /\ coordinator.at = "polling" /\ coordinator' = c
  BY <1>0, <1>1, <1>2, <1>3 DEF Poll, Idle, At, Shapes
<1>6. /\ c \in Coordinators /\ c.at = "polling" /\ c.session = coordinator.session
      /\ c.listed = pending /\ c.id = coordinator.id /\ c.final = last
  BY <1>2, <1>3, <1>4, <1>5 DEF Coordinators
<1>7. UNCHANGED <<command, expired, spool, active, image, worker, tasks, dispatched, lost,
                  button, sourceAsked, sourceRequests, sourceResponses, performed>>
  BY DEF Poll, uiVars, sourceVars
<1>8. Types' /\ Spools' /\ Wanted'
  BY <1>0, <1>5, <1>6, <1>7, CoordinatorTypes DEF Shapes
<1>9. Alone' /\ NothingIsLeftBehind'
  BY <1>5, <1>6, <1>7 DEF Inv, Sources, Alone, NothingIsLeftBehind, At, Alive
<1>10. LastPass'
  BY <1>1, <1>2, <1>5, <1>6, <1>7 DEF LastPass, At, Alive
<1>11. PerformedOnce'
  <2>1. ASSUME NEW n \in Requests, performed[n] # 0 PROVE n \notin pending
    BY <1>0, <1>1, <1>5, <2>1, CoordinatorFields DEF Inv, Sources, PerformedOnce, At, Serves
  <2> QED BY <1>4, <1>5, <1>6, <1>7, <2>1 DEF Inv, Sources, PerformedOnce, At, Serves
<1> QED BY <1>8, <1>9, <1>10, <1>11 DEF Inv, Sources

LEMMA PerformStep ==
    ASSUME Inv, NEW n \in coordinator.listed, Perform(n)
    PROVE  Inv' /\ performed[n] = 0 /\ \A m \in Requests : m # n => performed'[m] = performed[m]
<1>0. Shapes
  BY DEF Inv, Types
<1>1. n \in 1 .. Len(sourceAsked) /\ n \in Requests
  BY <1>0, Lengths DEF Inv, Sources, PerformedOnce
<1>2. coordinator \in Coordinators /\ coordinator.at = "polling" /\ performed[n] = 0
  BY <1>0, <1>1 DEF Perform, At, Shapes, Inv, Sources, PerformedOnce
<1>3. UNCHANGED <<command, expired, spool, active, image, worker, tasks, dispatched, lost,
                  button, sourceAsked, sourceResponses>>
  BY DEF Perform, uiVars
<1>4. CASE n \in sourceResponses
  <2>1. PICK c : c = [coordinator EXCEPT !.listed = @ \ {n}]
    OBVIOUS
  <2>2. /\ coordinator' = c /\ c \in Coordinators /\ c.at = "polling"
        /\ c.session = coordinator.session /\ c.listed = coordinator.listed \ {n}
        /\ c.id = coordinator.id /\ c.final = coordinator.final
    BY <1>2, <1>4, <2>1 DEF Perform, Coordinators
  <2>3. sourceRequests' = sourceRequests \ {n} /\ performed' = performed
    BY <1>4 DEF Perform
  <2>4. Types' /\ Spools' /\ Wanted'
    BY <1>0, <1>2, <1>3, <2>2, <2>3, CoordinatorTypes DEF Shapes
  <2>5. Sources'
    BY <1>2, <1>3, <2>2, <2>3
       DEF Inv, Sources, Alone, LastPass, PerformedOnce, NothingIsLeftBehind, At, Alive, Serves
  <2> QED BY <1>2, <2>3, <2>4, <2>5 DEF Inv
<1>5. CASE n \notin sourceResponses
  <2>1. PICK c : c = [coordinator EXCEPT !.at = "responding", !.id = n, !.listed = @ \ {n}]
    OBVIOUS
  <2>2. n \in 0 .. MaxRequests
    BY <1>1, Bounds
  <2>3. coordinator' = c /\ sourceRequests' = sourceRequests
    BY <1>5, <2>1 DEF Perform
  <2>4. /\ c \in Coordinators /\ c.at = "responding"
        /\ c.session = coordinator.session /\ c.listed = coordinator.listed \ {n}
        /\ c.id = n /\ c.final = coordinator.final
    BY <1>2, <2>1, <2>2 DEF Coordinators, Serves
  <2>5. /\ performed' \in [Requests -> Nat]
        /\ \A m \in Requests : m # n => performed'[m] = performed[m]
    BY <1>0, <1>1, <1>5 DEF Perform, Shapes
  <2>6. Types' /\ Spools' /\ Wanted'
    BY <1>0, <1>2, <1>3, <2>3, <2>4, <2>5, CoordinatorTypes DEF Shapes
  <2>7. Alone' /\ NothingIsLeftBehind'
    BY <1>2, <1>3, <2>3, <2>4 DEF Inv, Sources, Alone, NothingIsLeftBehind, At, Alive
  <2>8. LastPass'
    BY <1>2, <1>3, <2>3, <2>4 DEF Inv, Sources, LastPass, At, Alive, Serves
  <2>9. PerformedOnce'
    BY <1>1, <1>2, <1>3, <2>3, <2>4, <2>5 DEF Inv, Sources, PerformedOnce, At, Serves
  <2> QED BY <1>2, <2>5, <2>6, <2>7, <2>8, <2>9 DEF Inv, Sources
<1> QED BY <1>4, <1>5

LEMMA AnswerStep ==
    ASSUME Inv, Respond \/ Unlink
    PROVE  Inv' /\ performed' = performed
<1>0. Shapes
  BY DEF Inv, Types
<1>1. UNCHANGED <<command, expired, spool, active, image, worker, tasks, dispatched, lost,
                  button, sourceAsked, performed>>
  BY DEF Respond, Unlink, uiVars
<1>2. /\ coordinator \in Coordinators /\ coordinator.at \in Serves
      /\ coordinator.id \in 1 .. Len(sourceAsked)
  BY <1>0 DEF Respond, Unlink, At, Serves, Shapes, Inv, Sources, PerformedOnce
<1>3. CASE Respond
  <2>1. PICK c : c = [coordinator EXCEPT !.at = "unlinking"]
    OBVIOUS
  <2>2. /\ coordinator' = c /\ c \in Coordinators /\ c.at = "unlinking"
        /\ c.session = coordinator.session /\ c.listed = coordinator.listed
        /\ c.id = coordinator.id /\ c.final = coordinator.final
    BY <1>2, <1>3, <2>1 DEF Respond, Go, Coordinators, Serves
  <2>3. sourceRequests' = sourceRequests /\ sourceResponses' \subseteq 1 .. Len(sourceAsked)
    BY <1>0, <1>2, <1>3 DEF Respond, Shapes
  <2>4. Types' /\ Spools' /\ Wanted'
    BY <1>0, <1>1, <1>2, <2>2, <2>3, CoordinatorTypes DEF Shapes, Serves
  <2>5. Sources'
    BY <1>1, <1>2, <2>2, <2>3
       DEF Inv, Sources, Alone, LastPass, PerformedOnce, NothingIsLeftBehind, At, Alive, Serves
  <2> QED BY <1>1, <2>4, <2>5 DEF Inv
<1>4. CASE Unlink
  <2>1. PICK c : c = [coordinator EXCEPT !.at = "polling", !.id = 0]
    OBVIOUS
  <2>2. 0 \in 0 .. MaxRequests
    BY Bounds
  <2>3. /\ coordinator' = c /\ c \in Coordinators /\ c.at = "polling"
        /\ c.session = coordinator.session /\ c.listed = coordinator.listed
        /\ c.id = 0 /\ c.final = coordinator.final
    BY <1>2, <1>4, <2>1, <2>2 DEF Unlink, Served, Coordinators
  <2>4. sourceRequests' = sourceRequests \ {coordinator.id} /\ sourceResponses' = sourceResponses
    BY <1>4 DEF Unlink
  <2>5. Types' /\ Spools' /\ Wanted'
    BY <1>0, <1>1, <1>2, <2>3, <2>4, CoordinatorTypes DEF Shapes, Serves
  <2>6. Sources'
    BY <1>1, <1>2, <2>3, <2>4
       DEF Inv, Sources, Alone, LastPass, PerformedOnce, NothingIsLeftBehind, At, Alive, Serves
  <2> QED BY <1>1, <2>5, <2>6 DEF Inv
<1> QED BY <1>3, <1>4

\* The coordinator leaves: at the end of its last pass, or lost.
LEMMA LeaveStep ==
    ASSUME Inv, Complete \/ Lose
    PROVE  Inv' /\ performed' = performed
<1>0. Shapes /\ Started
  BY DEF Inv, Types
<1>1. PICK c : c = [coordinator EXCEPT !.at = "off", !.listed = {}, !.id = 0, !.final = FALSE]
  OBVIOUS
<1>2. 0 \in 0 .. MaxRequests /\ 0 \in 0 .. MaxSessions
  BY Bounds
<1>3. coordinator \in Coordinators /\ coordinator' = c
  BY <1>0, <1>1 DEF Complete, Lose, Leave, Shapes
<1>4. /\ c \in Coordinators /\ c.at = "off" /\ c.session = coordinator.session
      /\ c.listed = {} /\ c.id = 0 /\ c.final = FALSE
  BY <1>1, <1>2, <1>3 DEF Coordinators
<1>5. UNCHANGED <<command, expired, spool, image, worker, tasks, dispatched,
                  button, sourceAsked, sourceRequests, sourceResponses, performed>>
  BY DEF Complete, Lose, sourceVars
<1>6. active' \in 0 .. MaxSessions
  BY <1>0, <1>2 DEF Complete, Lose, Shapes
<1>7. coordinator.at # "off" /\ coordinator.session \in Sessions
  BY <1>0 DEF Complete, Lose, Exited, Idle, At, Started
<1>8. /\ lost \subseteq lost' /\ lost' \subseteq 1 .. coordinator.session
  <2>1. coordinator.session \in 1 .. coordinator.session
    BY <1>7, Bounds
  <2> QED BY <1>0, <2>1 DEF Complete, Lose, Shapes
<1>9. Types' /\ Spools' /\ Wanted'
  BY <1>0, <1>3, <1>4, <1>5, <1>6, <1>7, <1>8, CoordinatorTypes DEF Shapes
<1>10. LastPass' /\ PerformedOnce'
  BY <1>3, <1>4, <1>5 DEF Inv, Sources, LastPass, PerformedOnce, At, Serves
<1>11. Alone' /\ NothingIsLeftBehind'
  <2>1. CASE Lose
    <3>1. lost' = lost \cup {coordinator.session}
      BY <2>1 DEF Lose
    <3> QED BY <1>3, <1>4, <1>5, <3>1 DEF Inv, Sources, Alone, NothingIsLeftBehind, At, Alive
  <2>2. CASE Complete
    <3>1. lost' = lost /\ coordinator.final /\ coordinator.listed = {} /\ coordinator.at = "polling"
      BY <2>2 DEF Complete, Exited, Idle, At
    <3>2. /\ ~Alive(coordinator.session)
          /\ \A n \in sourceRequests : sourceAsked[n] # coordinator.session
      BY <1>7, <3>1 DEF Inv, Sources, LastPass, Serves
    <3> QED BY <1>3, <1>4, <1>5, <3>1, <3>2 DEF Inv, Sources, Alone, NothingIsLeftBehind, At, Alive
  <2> QED BY <2>1, <2>2
<1> QED BY <1>5, <1>9, <1>10, <1>11 DEF Inv, Sources

----------------------------------------------------------------------------
(* The theorems.                                                           *)

\* A step of a command, of the clock or of a worker.
LEMMA UiStep ==
    ASSUME Inv, Ui, UNCHANGED <<coordinator, lost, sourceVars>>
    PROVE  Inv'
<1>1. CASE Select /\ MayAsk
  BY <1>1, SelectStep
<1>2. ASSUME NEW r \in DOMAIN command, Command(r) PROVE Inv'
  BY <1>2, CommandsStep, Lengths DEF Inv, Types
<1>3. ASSUME NEW r \in DOMAIN command, Expire(r) PROVE Inv'
  BY <1>3, ExpireStep, Lengths DEF Inv, Types
<1>4. ASSUME NEW s \in Sessions, StartConnector(s) PROVE Inv'
  BY <1>4, ClearSpoolStep, WriteReadyStep DEF StartConnector
<1>5. ASSUME NEW s \in Sessions, Worker(s) \/ Satisfied(s) PROVE Inv'
  BY <1>5, WorkerStep
<1> QED BY <1>1, <1>2, <1>3, <1>4, <1>5 DEF Ui, Passes

LEMMA StutterStep ==
    ASSUME Inv, UNCHANGED vars
    PROVE  Inv'
<1>1. UNCHANGED <<command, expired, requests, responses, ready, active, image, worker, tasks,
                  dispatched, coordinator, lost, button, sourceAsked, sourceRequests,
                  sourceResponses, performed>>
  BY DEF vars, uiVars, spool, sourceVars
<1>2. Types'
  BY <1>1 DEF Inv, Types, Shapes, Started
<1>3. Spools' /\ Wanted'
  BY <1>1, <1>2, UiKeeps DEF Inv, Types, Shared
<1>4. Sources'
  BY <1>1, SourcesKeep DEF Inv, Types, Alive, sourceVars
<1> QED BY <1>2, <1>3, <1>4 DEF Inv

LEMMA InvStep == Inv /\ [Next]_vars => Inv'
<1> SUFFICES ASSUME Inv, [Next]_vars PROVE Inv'
  OBVIOUS
<1>1. CASE Ui /\ UNCHANGED <<coordinator, lost, sourceVars>>
  BY <1>1, UiStep
<1>2. CASE Image
  BY <1>2, ImageStep
<1>3. CASE Launch
  BY <1>3, LaunchStep
<1>4. CASE Coordinator
  BY <1>4, RecordSessionStep, PollStep, PerformStep, AnswerStep, LeaveStep
     DEF Coordinator, ServeSource
<1>5. CASE Lose
  BY <1>5, LeaveStep
<1>6. CASE UNCHANGED vars
  BY <1>6, StutterStep
<1> QED BY <1>1, <1>2, <1>3, <1>4, <1>5, <1>6 DEF Next

LEMMA Invariance == SpoolSpec => []Inv
<1>1. SpoolSpec => Init /\ [][Next]_vars
  BY PTL DEF SpoolSpec
<1> QED BY <1>1, InvInit, InvStep, PTL

\* The types hold for any number of sessions, requests and faults.
THEOREM SpoolTypes == SpoolSpec => []TypeOK
<1>1. Inv => TypeOK
  <2> SUFFICES ASSUME Inv PROVE TypeOK
    OBVIOUS
  <2>1. Shapes /\ Started
    BY DEF Inv, Types
  <2>2. coordinator.session \in 0 .. MaxSessions
    BY <2>1, CoordinatorFields
  <2>3. /\ DOMAIN command = 1 .. Len(command) /\ DOMAIN command \subseteq Requests
        /\ DOMAIN sourceAsked = 1 .. Len(sourceAsked)
        /\ \A r \in DOMAIN command : command[r].session \in Sessions
    BY <2>1, Lengths
  <2>4. requests \cup responses \cup expired \cup tasks \subseteq DOMAIN command
    BY <2>1, <2>3 DEF Shapes
  <2>5. sourceRequests \cup sourceResponses \subseteq DOMAIN sourceAsked
    BY <2>1, <2>3 DEF Shapes
  <2>6. {ready, active, coordinator.session} \subseteq 0 .. MaxSessions
    BY <2>1, <2>2 DEF Shapes
  <2>7. \A s \in Sessions :
            /\ worker[s].at # "off" \/ button[s] # 0 => image[s] = "serving"
            /\ image[s] # "none" => s <= coordinator.session
    BY <2>1 DEF Started
  <2> QED BY <2>3, <2>4, <2>5, <2>6, <2>7 DEF TypeOK
<1> QED BY <1>1, Invariance, PTL

\* Whatever the images ask for and whenever they exit, a coordinator that is
\* not lost ends with every request of its session performed and answered.
THEOREM RequestsAreNotForgotten == SpoolSpec => []NothingIsLeftBehind
<1>1. Inv => NothingIsLeftBehind
  BY DEF Inv, Sources
<1> QED BY <1>1, Invariance, PTL

\* A request is executed at most once and not after its command has given it
\* up, unless an orphaned image shares the spool; a source request is performed
\* at most once.
THEOREM EffectsAreOnlyWanted == SpoolSpec => EffectsAreWanted
<1> DEFINE Dispatches == \A r \in Requests : dispatched'[r] # dispatched[r] =>
               /\ dispatched[r] = 0
               /\ command[r].at \in {"waiting", "interrupted"} \/ Shared
           Performs == \A n \in Requests : performed'[n] # performed[n] => performed[n] = 0
<1>1. ASSUME Inv, NEW s \in Sessions, Handle(s) PROVE Dispatches
  <2>0. Shapes /\ Started
    BY <1>1 DEF Inv, Types
  <2>1. PICK r : r = worker[s].id
    OBVIOUS
  <2>2. CASE UNCHANGED dispatched
    BY <2>2
  <2>3. CASE Acceptable(s, r) /\ dispatched' = [dispatched EXCEPT ![r] = @ + 1]
    <3>1. worker[s].at = "read" /\ command[r].session = s /\ r \notin expired
      BY <1>1, <2>1, <2>3 DEF Handle, Acceptable
    <3>2. r \in 1 .. Len(command) /\ command[r].at # "selected" /\ dispatched[r] = 0
      BY <1>1, <2>1, <3>1 DEF Inv, Spools, Handles, Handling
    <3>3. r \in Requests /\ command[r].at \in Asking
      BY <2>0, <3>2, Lengths DEF Commands
    <3>4. image[s] = "serving"
      BY <2>0, <3>1 DEF Started
    <3>5. command[r].at \in {"waiting", "interrupted"} \/ Shared
      BY <1>1, <3>1, <3>2, <3>3, <3>4 DEF Inv, Wanted, Unanswered, Asking
    <3>6. \A q \in Requests : q # r => dispatched'[q] = dispatched[q]
      BY <2>0, <2>3 DEF Shapes
    <3> QED BY <3>2, <3>5, <3>6
  <2> QED BY <1>1, <2>1, <2>2, <2>3 DEF Handle
<1>2. ASSUME Inv, Ui, UNCHANGED <<coordinator, lost, sourceVars>> PROVE Dispatches /\ Performs
  <2>1. Performs
    BY <1>2 DEF sourceVars
  <2>2. CASE \E s \in Sessions : Handle(s)
    BY <1>1, <1>2, <2>1, <2>2
  <2>3. CASE UNCHANGED dispatched
    BY <2>1, <2>3
  <2>4. ASSUME NEW s \in Sessions, Worker(s), ~Handle(s) PROVE UNCHANGED dispatched
    BY <2>4 DEF Worker, List, ReadRequest, EndOperation, WriteResponse, DeleteRequest
  <2>5. (\E s \in Sessions : Handle(s)) \/ UNCHANGED dispatched
    BY <1>2, <2>4 DEF Ui, Select, Passes, Command, Submit, ReadResponse, RaiseExited, TimeOut,
       Interrupt, Expire, StartConnector, ClearSpool, WriteReady, Satisfied
  <2> QED BY <2>2, <2>3, <2>5
<1>3. ASSUME Inv, Image \/ Launch \/ Coordinator \/ Lose PROVE Dispatches /\ Performs
  <2>1. UNCHANGED dispatched
    BY <1>3 DEF Image, Press, RunTask, ReadAnswer, GiveUp, Release, Quit, Crash, End, uiVars,
       Launch, Coordinator, RecordSession, Poll, ServeSource, Perform, Respond, Unlink,
       Complete, Lose
  <2>2. ASSUME NEW n \in coordinator.listed, Perform(n) PROVE Performs
    BY <1>3, <2>2, PerformStep
  <2>3. ASSUME ~\E n \in coordinator.listed : Perform(n) PROVE UNCHANGED performed
    BY <1>3, <2>3 DEF Image, Press, RunTask, ReadAnswer, GiveUp, Release, Quit, Crash, End,
       Launch, Coordinator, RecordSession, Poll, ServeSource, Respond, Unlink,
       Complete, Lose, sourceVars
  <2> QED BY <2>1, <2>2, <2>3
<1>4. ASSUME UNCHANGED vars PROVE Dispatches /\ Performs
  BY <1>4 DEF vars, uiVars, sourceVars
<1>5. Inv /\ [Next]_vars => Dispatches /\ Performs
  BY <1>2, <1>3, <1>4 DEF Next
<1>6. SpoolSpec => [][Next]_vars
  BY PTL DEF SpoolSpec
<1>7. Inv /\ [Next]_vars => [Dispatches /\ Performs]_vars
  BY <1>5
<1> QED BY <1>6, <1>7, Invariance, PTL DEF EffectsAreWanted
=============================================================================
