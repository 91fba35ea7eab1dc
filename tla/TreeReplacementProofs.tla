------------------------ MODULE TreeReplacementProofs ------------------------
(* Proofs about the replacement of trees, for any processes, areas, paths and *)
(* trees, and any number of operations, edits, faults and kills: who may      *)
(* touch which directory when, that no tree vanishes, that a failed           *)
(* replacement is undone, and what a promotion and a rebase may overwrite.    *)
EXTENDS TreeReplacement, TreeMergeProofs, SequenceTheorems, TLAPS

----------------------------------------------------------------------------
(* Sequences of trees and destinations, seen as sets.                      *)

Elements(s) == {s[i] : i \in DOMAIN s}
Firsts(s) == {s[i][1] : i \in DOMAIN s}
Distinct(s) == \A i, j \in DOMAIN s : s[i][1] = s[j][1] => i = j

LEMMA EmptyElements == Elements(<<>>) = {} /\ Firsts(<<>>) = {} /\ Distinct(<<>>)
BY EmptySeq DEF Elements, Firsts, Distinct

LEMMA AppendElements ==
    ASSUME NEW S, NEW s \in Seq(S), NEW e \in S
    PROVE  /\ Append(s, e) \in Seq(S)
           /\ Elements(Append(s, e)) = Elements(s) \cup {e}
           /\ Firsts(Append(s, e)) = Firsts(s) \cup {e[1]}
<1> DEFINE t == Append(s, e)
           n == Len(s)
<1>1. /\ t \in Seq(S) /\ n \in Nat /\ DOMAIN s = 1 .. n /\ DOMAIN t = 1 .. n + 1
      /\ t[n + 1] = e /\ \A i \in 1 .. n : t[i] = s[i]
  BY AppendProperties, LenProperties
<1> HIDE DEF t, n
<1>2. \A i \in 1 .. n + 1 : i \in 1 .. n \/ i = n + 1
  BY <1>1
<1>3. n + 1 \in 1 .. n + 1 /\ \A i \in 1 .. n : i \in 1 .. n + 1
  BY <1>1
<1>4. Elements(t) = Elements(s) \cup {e}
  BY <1>1, <1>2, <1>3 DEF Elements
<1>5. Firsts(t) = Firsts(s) \cup {e[1]}
  BY <1>1, <1>2, <1>3 DEF Firsts
<1> QED BY <1>1, <1>4, <1>5 DEF t

LEMMA TailElements ==
    ASSUME NEW S, NEW s \in Seq(S), s # <<>>
    PROVE  /\ Tail(s) \in Seq(S) /\ s[1] \in S /\ 1 \in DOMAIN s
           /\ Elements(s) = {s[1]} \cup Elements(Tail(s))
           /\ Firsts(s) = {s[1][1]} \cup Firsts(Tail(s))
           /\ \A i \in DOMAIN Tail(s) : i + 1 \in DOMAIN s /\ Tail(s)[i] = s[i + 1] /\ i \in Nat /\ i > 0
<1> DEFINE t == Tail(s)
           n == Len(s)
<1>1. /\ t \in Seq(S) /\ n \in Nat /\ n > 0 /\ DOMAIN s = 1 .. n /\ DOMAIN t = 1 .. n - 1
      /\ \A i \in 1 .. n - 1 : t[i] = s[i + 1]
  BY HeadTailProperties, LenProperties, EmptySeq
<1>2. s[1] \in S
  BY <1>1, ElementOfSeq
<1> HIDE DEF t, n
<1>3. \A i \in 1 .. n : i = 1 \/ (i - 1 \in 1 .. n - 1 /\ s[i] = t[i - 1])
  BY <1>1
<1>4. 1 \in 1 .. n /\ \A i \in 1 .. n - 1 : i + 1 \in 1 .. n /\ i \in Nat /\ i > 0
  BY <1>1
<1>5. \A i \in DOMAIN s : i = 1 \/ \E j \in DOMAIN t : s[i] = t[j]
  BY <1>1, <1>3
<1>6. 1 \in DOMAIN s /\ \A j \in DOMAIN t : \E i \in DOMAIN s : t[j] = s[i]
  BY <1>1, <1>4
<1>7. Elements(s) = {s[1]} \cup Elements(t)
  <2>1. ASSUME NEW x PROVE x \in Elements(s) <=> x = s[1] \/ x \in Elements(t)
    BY <1>5, <1>6 DEF Elements
  <2> QED BY <2>1
<1>8. Firsts(s) = {s[1][1]} \cup Firsts(t)
  <2>1. ASSUME NEW x PROVE x \in Firsts(s) <=> x = s[1][1] \/ x \in Firsts(t)
    BY <1>5, <1>6 DEF Firsts
  <2> QED BY <2>1
<1> QED BY <1>1, <1>2, <1>4, <1>7, <1>8 DEF t

LEMMA NonemptyFirsts ==
    ASSUME NEW S, NEW s \in Seq(S), s # <<>>
    PROVE  Firsts(s) # {}
<1>1. Firsts(s) = {s[1][1]} \cup Firsts(Tail(s))
  BY TailElements
<1> QED BY <1>1

LEMMA FrontElements ==
    ASSUME NEW S, NEW s \in Seq(S), Len(s) > 0
    PROVE  /\ SubSeq(s, 1, Len(s) - 1) \in Seq(S) /\ s[Len(s)] \in S
           /\ Elements(s) = {s[Len(s)]} \cup Elements(SubSeq(s, 1, Len(s) - 1))
           /\ Firsts(s) = {s[Len(s)][1]} \cup Firsts(SubSeq(s, 1, Len(s) - 1))
           /\ s # <<>>
<1> DEFINE n == Len(s)
           t == SubSeq(s, 1, n - 1)
<1>1. n \in Nat /\ n > 0 /\ DOMAIN s = 1 .. n /\ s # <<>>
  BY LenProperties, EmptySeq
<1>2. \A i \in 1 .. n : s[i] \in S
  BY <1>1, ElementOfSeq
<1>3. t \in Seq(S) /\ DOMAIN t = 1 .. n - 1 /\ \A i \in 1 .. n - 1 : t[i] = s[i]
  <2>1. t = [i \in 1 .. n - 1 |-> s[1 + i - 1]]
    BY <1>1, SubSeqProperties
  <2>2. \A i \in 1 .. n - 1 : s[1 + i - 1] = s[i] /\ i \in 1 .. n
    BY <1>1
  <2>3. t \in Seq(S) /\ Len(t) = n - 1
    BY <1>1, <1>2, <2>1, <2>2, SubSeqProperties
  <2> QED BY <2>1, <2>2, <2>3
<1> HIDE DEF t, n
<1>4. \A i \in 1 .. n : i = n \/ i \in 1 .. n - 1
  BY <1>1
<1>5. n \in 1 .. n /\ \A i \in 1 .. n - 1 : i \in 1 .. n
  BY <1>1
<1>6. Elements(s) = {s[n]} \cup Elements(t)
  BY <1>1, <1>3, <1>4, <1>5 DEF Elements
<1>7. Firsts(s) = {s[n][1]} \cup Firsts(t)
  BY <1>1, <1>3, <1>4, <1>5 DEF Firsts
<1> QED BY <1>1, <1>2, <1>3, <1>5, <1>6, <1>7 DEF t, n

----------------------------------------------------------------------------
(* Types, locks and the shape of a call of _replace_trees.                 *)

Moving == {"replacing", "between", "undoing"}
Locked == {"replacing", "between", "undoing", "waiting", "reading", "rebased", "prepared",
           "committing", "reverting", "sourced", "handling", "recording"}
Calls == {"none", "rebase", "rebaseUndo", "source", "base", "sourceUndo"}
SourceCalls == {"source", "sourceUndo"}

Originals == UNION {[D -> MaybeTree] : D \in SUBSET Dests}
Pairs == Dests \X Trees
Processes == [op : Operations, area : Areas \cup {Nobody}, at : Phases, call : Calls,
              jobs : Seq(Pairs), installed : Seq(Dests),
              base : Trees, overlay : Trees, current : Trees, before : MaybeTree,
              original : Originals, since : Nat]

Types ==
    /\ tree \in [Dests -> MaybeTree]
    /\ litter \in [Dests -> SUBSET Trees]
    /\ backups \in [Procs -> Seq(Pairs)]
    /\ record \in [Areas -> {"none", "bare", "ready", "conflicted", "promoted"}]
    /\ proc \in [Procs -> Processes]
    /\ areaLock \in [Areas -> Procs \cup {Nobody}]
    /\ promotionLock \in Procs \cup {Nobody} /\ buildLock \in Procs \cup {Nobody}
    /\ edits \in 0 .. MaxEdits /\ ops \in 0 .. MaxOps /\ faults \in 0 .. MaxFaults

\* A process that is idle has let go of its locks.
Busy(p) == At(p, "idle") => /\ promotionLock # p /\ buildLock # p
                            /\ \A a \in Areas : areaLock[a] # p

\* The destinations a call has put in place, has still to replace, and has moved away.
Installed(p) == Elements(proc[p].installed)
Pending(p) == Firsts(proc[p].jobs)
Saved(p) == Firsts(backups[p])

\* What a call of _replace_trees may touch.
Own(p) == IF proc[p].call \in SourceCalls THEN {Src}
          ELSE {Base(proc[p].area), Overlay(proc[p].area)}

Promoting(p) == \/ proc[p].at \in {"sourced", "handling", "recording"}
                \/ proc[p].at \in Moving /\ proc[p].call \in {"source", "sourceUndo", "base"}

\* Which locks a process holds where.
Holds(p) ==
    /\ At(p, "idle") => proc[p].op = "none"
    /\ ~At(p, "idle") => proc[p].area \in Areas
    /\ proc[p].at \in Locked \cup {"copying", "importing"} => areaLock[proc[p].area] = p
    /\ (At(p, "failing") /\ proc[p].op = "accept") => areaLock[proc[p].area] = p
    /\ proc[p].at \in Locked => Readable(proc[p].area)
    /\ (proc[p].op = "promote" /\ ~At(p, "waiting")) => promotionLock = p
    /\ Promoting(p) => proc[p].op = "promote" /\ proc[p].before # Absent
    /\ At(p, "integrating") => proc[p].op = "reconcile"

\* Each destination of a call is pending, put in place, or neither any more.
Orderly(p) ==
    /\ proc[p].at \notin Moving => backups[p] = <<>>
    /\ proc[p].at \in Moving =>
          /\ proc[p].call # "none"
          /\ Pending(p) \cup Installed(p) \cup Saved(p) \subseteq Own(p)
          /\ Distinct(backups[p])
    /\ At(p, "replacing") => Saved(p) \subseteq Installed(p)
    /\ At(p, "between") => /\ proc[p].jobs # <<>>
                           /\ Target(p) \in Saved(p)
                           /\ Saved(p) \subseteq Installed(p) \cup {Target(p)}
    /\ proc[p].at \in {"replacing", "between"} =>
          /\ Pending(p) \cap Installed(p) = {}
          /\ Distinct(proc[p].jobs)

Inv == Types /\ \A p \in Procs : Busy(p) /\ Holds(p) /\ Orderly(p)

LEMMA DestinationsAreGiven ==
    /\ Src \in Dests /\ \A a \in Areas : Base(a) \in Dests /\ Overlay(a) \in Dests
    /\ \A a, b \in Areas : /\ Base(a) # Src /\ Overlay(a) # Src /\ Base(a) # Overlay(b)
                           /\ Base(a) = Base(b) => a = b
                           /\ Overlay(a) = Overlay(b) => a = b
BY DEF Dests, Src, Base, Overlay

LEMMA EmptyTreeIsTree == EmptyTree \in Trees
BY DEF EmptyTree, Trees

LEMMA ReadsAreTrees ==
    ASSUME Types, NEW d \in Dests
    PROVE  Read(d) \in Trees /\ (tree[d] # Absent => tree[d] \in Trees /\ Read(d) = tree[d])
BY EmptyTreeIsTree, AbsentIsNoTree DEF Types, MaybeTree, Read

\* The fields of one process.
LEMMA Fields ==
    ASSUME Types, NEW p \in Procs
    PROVE  /\ proc[p].op \in Operations /\ proc[p].area \in Areas \cup {Nobody}
           /\ proc[p].at \in Phases /\ proc[p].call \in Calls
           /\ proc[p].jobs \in Seq(Pairs) /\ proc[p].installed \in Seq(Dests)
           /\ proc[p].base \in Trees /\ proc[p].overlay \in Trees /\ proc[p].current \in Trees
           /\ proc[p].before \in MaybeTree /\ proc[p].original \in Originals
           /\ proc[p].since \in Nat /\ backups[p] \in Seq(Pairs)
<1>1. proc[p] \in Processes
  BY DEF Types
<1> QED BY <1>1 DEF Processes, Types

SameMemory(p) ==
    /\ proc'[p].base = proc[p].base /\ proc'[p].overlay = proc[p].overlay
    /\ proc'[p].current = proc[p].current /\ proc'[p].before = proc[p].before
    /\ proc'[p].since = proc[p].since /\ proc'[p].area = proc[p].area

SameCall(p) ==
    /\ proc'[p].call = proc[p].call /\ proc'[p].jobs = proc[p].jobs
    /\ proc'[p].installed = proc[p].installed /\ proc'[p].original = proc[p].original

\* The other processes.
Others(p) == \A q \in Procs : q # p => proc'[q] = proc[q]

LEMMA BecomeStep ==
    ASSUME Types, NEW p \in Procs, NEW s \in Processes, Become(p, s)
    PROVE  proc' \in [Procs -> Processes] /\ proc'[p] = s /\ Others(p)
BY DEF Types, Become, Others

LEMMA GoStep ==
    ASSUME Types, NEW p \in Procs, NEW at \in Phases, Go(p, at)
    PROVE  /\ proc' \in [Procs -> Processes] /\ Others(p)
           /\ proc'[p].at = at /\ proc'[p].op = proc[p].op /\ SameMemory(p) /\ SameCall(p)
<1>1. PICK s : s = [proc[p] EXCEPT !.at = at]
  OBVIOUS
<1>2. proc[p] \in Processes
  BY DEF Types
<1>3. /\ s \in Processes /\ s.at = at /\ s.op = proc[p].op /\ s.area = proc[p].area
      /\ s.call = proc[p].call /\ s.jobs = proc[p].jobs /\ s.installed = proc[p].installed
      /\ s.base = proc[p].base /\ s.overlay = proc[p].overlay /\ s.current = proc[p].current
      /\ s.before = proc[p].before /\ s.original = proc[p].original /\ s.since = proc[p].since
  BY <1>1, <1>2 DEF Processes
<1>4. proc' \in [Procs -> Processes] /\ proc'[p] = s /\ Others(p)
  BY <1>1, <1>3, BecomeStep DEF Go
<1> QED BY <1>3, <1>4 DEF SameMemory, SameCall

LEMMA IdleFields ==
    /\ Idle \in Processes /\ Idle.at = "idle" /\ Idle.op = "none" /\ Idle.call = "none"
    /\ Idle.jobs = <<>> /\ Idle.installed = <<>> /\ Idle.since = 0
    /\ Idle.base = EmptyTree /\ Idle.overlay = EmptyTree /\ Idle.current = EmptyTree
    /\ Idle.before = Absent
<1>1. <<>> \in Seq(Pairs) /\ <<>> \in Seq(Dests)
  BY EmptySeq
<1>2. <<>> \in [{} -> MaybeTree]
  BY EmptySeq
<1>3. <<>> \in Originals
  BY <1>2 DEF Originals
<1> QED BY <1>1, <1>3, EmptyTreeIsTree DEF Idle, Processes, Operations, Phases, Calls, MaybeTree

LEMMA StartedStep ==
    ASSUME Types, NEW p \in Procs, NEW o \in Operations, NEW a \in Areas, NEW at \in Phases,
           Started(p, o, a, at)
    PROVE  /\ proc' \in [Procs -> Processes] /\ Others(p)
           /\ proc'[p].at = at /\ proc'[p].op = o /\ proc'[p].area = a /\ proc'[p].call = "none"
           /\ proc'[p].since = 0 /\ proc'[p].jobs = <<>> /\ proc'[p].before = Absent
           /\ proc'[p].base = EmptyTree /\ proc'[p].overlay = EmptyTree
           /\ proc'[p].current = EmptyTree
           /\ ops' \in 0 .. MaxOps /\ At(p, "idle")
<1>1. PICK s : s = [Idle EXCEPT !.op = o, !.area = a, !.at = at]
  OBVIOUS
<1>2. /\ s \in Processes /\ s.at = at /\ s.op = o /\ s.area = a /\ s.call = "none"
      /\ s.since = 0 /\ s.jobs = <<>> /\ s.before = Absent
      /\ s.base = EmptyTree /\ s.overlay = EmptyTree /\ s.current = EmptyTree
  BY <1>1, IdleFields DEF Processes
<1>3. Become(p, s) /\ ops < MaxOps /\ ops' = ops + 1 /\ At(p, "idle")
  BY <1>1 DEF Started
<1>4. ops' \in 0 .. MaxOps
  BY <1>3, BoundsAreNaturals DEF Types
<1>5. proc' \in [Procs -> Processes] /\ proc'[p] = s /\ Others(p)
  BY <1>2, <1>3, BecomeStep
<1> QED BY <1>2, <1>3, <1>4, <1>5

LEMMA CallingFields ==
    ASSUME Types, NEW p \in Procs, NEW call \in Calls, NEW jobs \in Seq(Pairs)
    PROVE  LET s == Calling(p, call, jobs)
           IN  /\ s \in Processes /\ s.at = "replacing" /\ s.call = call /\ s.jobs = jobs
               /\ s.installed = <<>> /\ s.original = [d \in Firsts(jobs) |-> tree[d]]
               /\ s.op = proc[p].op /\ s.area = proc[p].area
               /\ s.base = proc[p].base /\ s.overlay = proc[p].overlay
               /\ s.current = proc[p].current /\ s.before = proc[p].before
               /\ s.since = proc[p].since
<1>1. PICK o : o = [d \in Firsts(jobs) |-> tree[d]]
  OBVIOUS
<1>2. Firsts(jobs) \subseteq Dests
  <2>1. \A i \in DOMAIN jobs : jobs[i] \in Pairs
    BY ElementOfSeq
  <2> QED BY <2>1 DEF Firsts, Pairs
<1>3. o \in Originals
  <2>1. o \in [Firsts(jobs) -> MaybeTree]
    BY <1>1, <1>2 DEF Types
  <2> QED BY <1>2, <2>1 DEF Originals
<1>4. PICK s : s = Calling(p, call, jobs)
  OBVIOUS
<1>5. s = [proc[p] EXCEPT !.at = "replacing", !.call = call, !.jobs = jobs, !.installed = <<>>,
                          !.original = o]
  BY <1>1, <1>4 DEF Calling, Firsts
<1>6. proc[p] \in Processes /\ <<>> \in Seq(Dests)
  BY EmptySeq DEF Types
<1>7. /\ s \in Processes /\ s.at = "replacing" /\ s.call = call /\ s.jobs = jobs
      /\ s.installed = <<>> /\ s.original = o
      /\ s.op = proc[p].op /\ s.area = proc[p].area
      /\ s.base = proc[p].base /\ s.overlay = proc[p].overlay
      /\ s.current = proc[p].current /\ s.before = proc[p].before
      /\ s.since = proc[p].since
  BY <1>3, <1>5, <1>6 DEF Processes, Phases
<1> QED BY <1>1, <1>4, <1>7

\* A process changes no lock of another one, and makes no area unreadable.
LocksOf(p) ==
    /\ \A a \in Areas : areaLock'[a] = areaLock[a]
                            \/ {areaLock[a], areaLock'[a]} \subseteq {p, Nobody}
    /\ promotionLock' = promotionLock \/ {promotionLock, promotionLock'} \subseteq {p, Nobody}
    /\ buildLock' = buildLock \/ {buildLock, buildLock'} \subseteq {p, Nobody}

StayReadable == \A a \in Areas : Readable(a) => Readable(a)'

OthersBackups(p) == \A q \in Procs : q # p => backups'[q] = backups[q]

\* What each step of a process is shown to do.
Proper(p) ==
    /\ Types' /\ Others(p) /\ OthersBackups(p) /\ LocksOf(p) /\ StayReadable
    /\ Busy(p)' /\ Holds(p)' /\ Orderly(p)'

LEMMA ProperStep ==
    ASSUME Inv, NEW p \in Procs, Proper(p)
    PROVE  Inv'
<1> SUFFICES ASSUME NEW q \in Procs, q # p PROVE Busy(q)' /\ Holds(q)' /\ Orderly(q)'
  BY DEF Inv, Proper
<1>1. Types /\ Busy(q) /\ Holds(q) /\ Orderly(q)
  BY DEF Inv
<1>2. proc'[q] = proc[q] /\ backups'[q] = backups[q] /\ q # Nobody /\ p # Nobody
  BY NobodyIsNoProcess DEF Proper, Others, OthersBackups
<1>3. /\ \A a \in Areas : areaLock[a] = q <=> areaLock'[a] = q
      /\ promotionLock = q <=> promotionLock' = q
      /\ buildLock = q <=> buildLock' = q
  BY <1>2 DEF Proper, LocksOf
<1>4. Busy(q)'
  BY <1>1, <1>2, <1>3 DEF Busy, At
<1>5. Holds(q)'
  <2>1. \A a \in Areas : Readable(a) => Readable(a)'
    BY DEF Proper, StayReadable
  <2>2. Promoting(q)' <=> Promoting(q)
    BY <1>2 DEF Promoting
  <2>3. proc[q].at \in Locked \cup {"copying", "importing", "failing"} => ~ At(q, "idle")
    BY DEF Locked, At
  <2> QED BY <1>1, <1>2, <1>3, <2>1, <2>2, <2>3 DEF Holds, At, Locked
<1>6. Orderly(q)'
  BY <1>1, <1>2 DEF Orderly, At, Pending, Installed, Saved, Own, Target
<1> QED BY <1>4, <1>5, <1>6

\* Steps after which nothing is being replaced.
LEMMA RestingStep ==
    ASSUME Inv, NEW p \in Procs, proc'[p].at \notin Moving, backups'[p] = <<>>
    PROVE  Orderly(p)'
BY DEF Orderly, At, Moving

LEMMA LeaveStep ==
    ASSUME Inv, NEW p \in Procs, Leave(p)
    PROVE  /\ proc' \in [Procs -> Processes] /\ Others(p) /\ proc'[p] = Idle /\ LocksOf(p)
           /\ areaLock' \in [Areas -> Procs \cup {Nobody}]
           /\ promotionLock' \in Procs \cup {Nobody} /\ buildLock' \in Procs \cup {Nobody}
           /\ Busy(p)' /\ Holds(p)'
<1>1. Types /\ p # Nobody
  BY NobodyIsNoProcess DEF Inv
<1>2. proc' \in [Procs -> Processes] /\ Others(p) /\ proc'[p] = Idle
  BY <1>1, IdleFields, BecomeStep DEF Leave
<1>3. LocksOf(p)
  BY <1>1 DEF Leave, LocksOf
<1>4. /\ areaLock' \in [Areas -> Procs \cup {Nobody}]
      /\ promotionLock' \in Procs \cup {Nobody} /\ buildLock' \in Procs \cup {Nobody}
  BY <1>1 DEF Leave, Types
<1>5. Busy(p)'
  BY <1>1 DEF Leave, Busy
<1>6. Holds(p)'
  BY <1>2, IdleFields DEF Holds, At, Locked, Moving, Promoting
<1> QED BY <1>2, <1>3, <1>4, <1>5, <1>6

LEMMA StartSteps ==
    ASSUME Inv, NEW p \in Procs, NEW a \in Areas,
           Rebase(p, a) \/ Promote(p, a) \/ Integrate(p, a) \/ Create(p, a) \/ Migrate(p, a)
    PROVE  Proper(p)
<1>0. Types /\ Busy(p) /\ Holds(p) /\ Orderly(p) /\ p # Nobody
  BY NobodyIsNoProcess DEF Inv
<1> USE <1>0
<1>1. ASSUME NEW o \in {"rebase", "promote", "create", "migrate"},
             NEW at \in {"reading", "waiting", "copying", "importing"},
             Started(p, o, a, at), Lock(p, a),
             (o = "promote" /\ at = "waiting") \/ (o = "rebase" /\ at = "reading")
                \/ (o \in {"create", "migrate"} /\ at \in {"copying", "importing"}),
             at \in Locked => Readable(a),
             record' \in [Areas -> {"none", "bare", "ready", "conflicted", "promoted"}],
             StayReadable,
             UNCHANGED <<tree, litter, backups, promotionLock, buildLock, edits, faults>>
      PROVE  Proper(p)
  <2>1. /\ proc' \in [Procs -> Processes] /\ Others(p)
        /\ proc'[p].at = at /\ proc'[p].op = o /\ proc'[p].area = a
        /\ ops' \in 0 .. MaxOps /\ At(p, "idle")
    BY <1>1, StartedStep DEF Operations, Phases
  <2>2. /\ areaLock[a] = Nobody /\ areaLock' = [areaLock EXCEPT ![a] = p]
        /\ areaLock' \in [Areas -> Procs \cup {Nobody}] /\ areaLock'[a] = p
    BY <1>1 DEF Lock, Types
  <2>3. Types'
    BY <1>1, <2>1, <2>2 DEF Types
  <2>4. LocksOf(p) /\ OthersBackups(p)
    BY <1>1, <2>2 DEF LocksOf, OthersBackups
  <2>5. Readable(a) => Readable(a)'
    BY <1>1 DEF StayReadable
  <2>6. Holds(p)' /\ Busy(p)'
    BY <1>1, <2>1, <2>2, <2>5 DEF Holds, Busy, At, Locked, Promoting, Moving
  <2>7. Orderly(p)'
    BY <1>1, <2>1, RestingStep DEF Moving, Orderly, At
  <2> QED BY <1>1, <2>1, <2>3, <2>4, <2>6, <2>7 DEF Proper
<1>2. CASE Rebase(p, a)
  BY <1>1, <1>2 DEF Rebase, StayReadable, Readable, Types
<1>3. CASE Promote(p, a)
  BY <1>1, <1>3 DEF Promote, StayReadable, Readable, Types
<1>4. CASE Create(p, a) \/ Migrate(p, a)
  <2>1. record' = [record EXCEPT ![a] = "bare"] /\ record[a] = "none"
    BY <1>4 DEF Create, Migrate
  <2>2. /\ record' \in [Areas -> {"none", "bare", "ready", "conflicted", "promoted"}]
        /\ StayReadable
    BY <2>1 DEF StayReadable, Readable, Types
  <2> QED BY <1>1, <1>4, <2>2 DEF Create, Migrate, Locked
<1>5. CASE Integrate(p, a)
  <2>1. Started(p, "reconcile", a, "entering") /\ buildLock = Nobody /\ buildLock' = p
        /\ UNCHANGED <<tree, litter, backups, record, areaLock, promotionLock, edits, faults>>
    BY <1>5 DEF Integrate
  <2>2. /\ proc' \in [Procs -> Processes] /\ Others(p) /\ ops' \in 0 .. MaxOps
        /\ proc'[p].at = "entering" /\ proc'[p].op = "reconcile" /\ proc'[p].area = a
        /\ At(p, "idle")
    BY <2>1, StartedStep DEF Operations, Phases
  <2>3. Types'
    BY <2>1, <2>2 DEF Types
  <2>4. LocksOf(p) /\ OthersBackups(p) /\ StayReadable
    BY <2>1 DEF LocksOf, OthersBackups, StayReadable, Readable
  <2>5. Holds(p)' /\ Busy(p)'
    BY <2>2 DEF Holds, Busy, At, Locked, Promoting, Moving
  <2>6. Orderly(p)'
    BY <2>1, <2>2, RestingStep DEF Moving, Orderly, At
  <2> QED BY <2>2, <2>3, <2>4, <2>5, <2>6 DEF Proper
<1> QED BY <1>2, <1>3, <1>4, <1>5

\* Steps to another phase that are not steps of a replacement.
LEMMA PhaseStep ==
    ASSUME Inv, NEW p \in Procs, NEW at \in Phases \ (Moving \cup {"idle"}),
           Go(p, at), proc[p].at \notin Moving \cup {"idle"},
           tree' \in [Dests -> MaybeTree], litter' \in [Dests -> SUBSET Trees],
           record' \in [Areas -> {"none", "bare", "ready", "conflicted", "promoted"}],
           areaLock' \in [Areas -> Procs \cup {Nobody}], promotionLock' \in Procs \cup {Nobody},
           faults' \in 0 .. MaxFaults, UNCHANGED <<backups, buildLock, edits, ops>>,
           StayReadable, LocksOf(p),
           (at \in Locked \cup {"copying", "importing"} \/ (at = "failing" /\ proc[p].op = "accept"))
               => areaLock'[proc[p].area] = p,
           at \in Locked => Readable(proc[p].area),
           (proc[p].op = "promote" /\ at # "waiting") => promotionLock' = p,
           at \in {"sourced", "handling", "recording"}
               => proc[p].op = "promote" /\ proc[p].before # Absent,
           at = "integrating" => proc[p].op = "reconcile"
    PROVE  /\ Proper(p) /\ proc'[p].at = at /\ proc'[p].op = proc[p].op
           /\ SameMemory(p) /\ SameCall(p)
<1>0. Types /\ Holds(p) /\ Orderly(p)
  BY DEF Inv
<1>1. /\ proc' \in [Procs -> Processes] /\ Others(p)
      /\ proc'[p].at = at /\ proc'[p].op = proc[p].op /\ SameMemory(p) /\ SameCall(p)
  BY <1>0, GoStep
<1>2. Types'
  BY <1>0, <1>1 DEF Types
<1>3. proc[p].area \in Areas
  BY <1>0 DEF Holds, At
<1>4. Holds(p)' /\ Busy(p)'
  BY <1>0, <1>1, <1>3 DEF Holds, Busy, At, SameMemory, Promoting, StayReadable
<1>5. backups'[p] = <<>>
  BY <1>0 DEF Orderly
<1>6. Orderly(p)'
  BY <1>1, <1>5, RestingStep
<1> QED BY <1>1, <1>2, <1>4, <1>6 DEF Proper, OthersBackups

\* Steps that leave everything alone but the phase.
LEMMA PlainStep ==
    ASSUME Inv, NEW p \in Procs, NEW at \in Phases \ (Moving \cup {"idle"}),
           Go(p, at), proc[p].at \notin Moving \cup {"idle"},
           faults' \in 0 .. MaxFaults,
           UNCHANGED <<tree, litter, backups, record, locks, edits, ops>>,
           (at \in Locked \cup {"copying", "importing"} \/ (at = "failing" /\ proc[p].op = "accept"))
               => areaLock[proc[p].area] = p,
           at \in Locked => Readable(proc[p].area),
           (proc[p].op = "promote" /\ at # "waiting") => promotionLock = p,
           at \in {"sourced", "handling", "recording"}
               => proc[p].op = "promote" /\ proc[p].before # Absent,
           at = "integrating" => proc[p].op = "reconcile"
    PROVE  /\ Proper(p) /\ proc'[p].at = at /\ proc'[p].op = proc[p].op
           /\ SameMemory(p) /\ SameCall(p)
<1>1. Types /\ StayReadable /\ LocksOf(p)
  BY DEF Inv, StayReadable, Readable, LocksOf, locks
<1>2. /\ tree' \in [Dests -> MaybeTree] /\ litter' \in [Dests -> SUBSET Trees]
      /\ record' \in [Areas -> {"none", "bare", "ready", "conflicted", "promoted"}]
      /\ areaLock' \in [Areas -> Procs \cup {Nobody}] /\ promotionLock' \in Procs \cup {Nobody}
      /\ areaLock' = areaLock /\ promotionLock' = promotionLock
      /\ UNCHANGED <<backups, buildLock, edits, ops>>
  BY <1>1 DEF Types, locks
<1> QED BY <1>1, <1>2, PhaseStep

LEMMA OneJob ==
    ASSUME NEW d \in Dests, NEW t \in Trees
    PROVE  /\ <<<<d, t>>>> \in Seq(Pairs) /\ Firsts(<<<<d, t>>>>) = {d}
           /\ Elements(<<<<d, t>>>>) = {<<d, t>>}
           /\ <<<<d, t>>>> # <<>> /\ <<<<d, t>>>>[1] = <<d, t>>
           /\ Distinct(<<<<d, t>>>>)
BY DEF Firsts, Elements, Pairs, Distinct

LEMMA TwoJobs ==
    ASSUME NEW d \in Dests, NEW e \in Dests, NEW t \in Trees, NEW u \in Trees, d # e
    PROVE  LET jobs == <<<<d, t>>, <<e, u>>>>
           IN  /\ jobs \in Seq(Pairs) /\ Firsts(jobs) = {d, e}
               /\ Elements(jobs) = {<<d, t>>, <<e, u>>} /\ jobs # <<>>
               /\ Distinct(jobs)
BY DEF Firsts, Elements, Pairs, Distinct

Steady == UNCHANGED <<tree, litter, backups, record, locks, disturbed, counters>>

\* _replace_trees is called.
LEMMA CallStep ==
    ASSUME Inv, NEW p \in Procs, proc[p].at \in Locked \ (Moving \cup {"waiting"}),
           NEW call \in Calls \ {"none"}, NEW jobs \in Seq(Pairs),
           NEW s \in Processes, Become(p, s), Steady,
           s.at = "replacing", s.call = call, s.jobs = jobs, s.installed = <<>>,
           s.op = proc[p].op, s.area = proc[p].area,
           Distinct(jobs),
           Firsts(jobs) \subseteq IF call \in SourceCalls THEN {Src}
                                  ELSE {Base(proc[p].area), Overlay(proc[p].area)},
           call \in {"source", "sourceUndo", "base"} => proc[p].op = "promote" /\ s.before # Absent
    PROVE  Proper(p) /\ proc'[p] = s
<1>0. Types /\ Holds(p) /\ Orderly(p)
  BY DEF Inv
<1>1. proc' \in [Procs -> Processes] /\ Others(p) /\ proc'[p] = s
  BY <1>0, BecomeStep
<1>2. Types' /\ LocksOf(p) /\ StayReadable /\ OthersBackups(p) /\ areaLock' = areaLock
      /\ promotionLock' = promotionLock /\ backups' = backups
  BY <1>0, <1>1 DEF Types, Steady, locks, counters, LocksOf, StayReadable, Readable, OthersBackups
<1>3. /\ proc[p].area \in Areas /\ areaLock[proc[p].area] = p /\ Readable(proc[p].area)
      /\ proc[p].op = "promote" => promotionLock = p
  BY <1>0 DEF Holds, At, Locked
<1>4. Holds(p)' /\ Busy(p)'
  BY <1>1, <1>2, <1>3 DEF Holds, Busy, At, StayReadable, Promoting
<1>5. /\ Pending(p)' = Firsts(jobs) /\ Installed(p)' = {} /\ Saved(p)' = {}
      /\ Own(p)' = IF call \in SourceCalls THEN {Src}
                   ELSE {Base(proc[p].area), Overlay(proc[p].area)}
  <2>1. backups[p] = <<>>
    BY <1>0 DEF Orderly
  <2> QED BY <1>1, <1>2, <2>1, EmptyElements DEF Pending, Installed, Saved, Own
<1>6. Orderly(p)'
  <2>1. Distinct(backups'[p]) /\ Distinct(proc'[p].jobs)
    BY <1>0, <1>1, <1>2, EmptyElements DEF Orderly
  <2> QED BY <1>1, <1>5, <2>1 DEF Orderly, At, Moving
<1> QED BY <1>1, <1>2, <1>4, <1>6 DEF Proper

----------------------------------------------------------------------------
(* Rebases and promotions.                                                 *)

LEMMA FaultStep ==
    ASSUME Types, Fault
    PROVE  faults' \in 0 .. MaxFaults
BY BoundsAreNaturals DEF Types, Fault

\* The phases of a rebase or a promotion that is not replacing trees.
LEMMA LockedFacts ==
    ASSUME Inv, NEW p \in Procs, proc[p].at \in Locked \ {"waiting"}
    PROVE  /\ proc[p].area \in Areas /\ areaLock[proc[p].area] = p /\ Readable(proc[p].area)
           /\ proc[p].op = "promote" => promotionLock = p
           /\ Base(proc[p].area) \in Dests /\ Overlay(proc[p].area) \in Dests
           /\ Base(proc[p].area) # Overlay(proc[p].area)
BY DestinationsAreGiven DEF Inv, Holds, At, Locked

LEMMA LockPromotionStep ==
    ASSUME Inv, NEW p \in Procs, LockPromotion(p)
    PROVE  Proper(p) /\ proc'[p].at = "reading" /\ SameMemory(p) /\ SameCall(p)
                     /\ proc'[p].op = proc[p].op
<1>1. /\ At(p, "waiting") /\ promotionLock = Nobody /\ promotionLock' = p /\ Go(p, "reading")
      /\ UNCHANGED <<tree, litter, backups, record, areaLock, buildLock, disturbed, counters>>
  BY DEF LockPromotion
<1>2. Types /\ areaLock[proc[p].area] = p /\ Readable(proc[p].area)
  BY <1>1 DEF Inv, Holds, At, Locked
<1>3. StayReadable /\ LocksOf(p)
  BY <1>1 DEF StayReadable, Readable, LocksOf
<1> QED BY <1>1, <1>2, <1>3, PhaseStep DEF Types, Phases, Moving, At, counters

LEMMA ReadTreesStep ==
    ASSUME Inv, NEW p \in Procs, ReadTrees(p)
    PROVE  /\ Proper(p) /\ proc'[p].at \in {"rebased", "failing", "prepared"}
           /\ proc'[p].op = proc[p].op /\ proc'[p].area = proc[p].area
           /\ proc'[p].base = Read(Base(proc[p].area))
           /\ proc'[p].overlay = Read(Overlay(proc[p].area))
           /\ proc'[p].current = Read(Src) /\ proc'[p].since = Newest
           /\ proc'[p].before = proc[p].before /\ proc'[p].jobs = proc[p].jobs
           /\ proc'[p].at = "prepared"
                 => Conflicts(proc'[p].base, proc'[p].overlay, proc'[p].current) = {}
<1>1. PICK mem : mem = [proc[p] EXCEPT !.base = Read(Base(proc[p].area)),
                     !.overlay = Read(Overlay(proc[p].area)),
                     !.current = Read(Src), !.since = Newest]
  OBVIOUS
<1>2. At(p, "reading") /\ Types /\ proc[p] \in Processes
  BY DEF Inv, Types, ReadTrees
<1>3. /\ proc[p].area \in Areas /\ areaLock[proc[p].area] = p /\ Readable(proc[p].area)
      /\ proc[p].op = "promote" => promotionLock = p
      /\ Base(proc[p].area) \in Dests /\ Overlay(proc[p].area) \in Dests /\ Src \in Dests
  BY <1>2, LockedFacts, DestinationsAreGiven DEF At, Locked
<1>4. Newest \in Nat
  BY <1>2, NumberedContents, BoundsAreNaturals DEF Newest, Types
<1>5. /\ mem \in Processes /\ mem.op = proc[p].op /\ mem.area = proc[p].area
      /\ mem.base = Read(Base(proc[p].area)) /\ mem.overlay = Read(Overlay(proc[p].area))
      /\ mem.current = Read(Src) /\ mem.since = Newest /\ mem.before = proc[p].before
      /\ mem.at = "reading" /\ mem.call = proc[p].call /\ mem.jobs = proc[p].jobs
  BY <1>1, <1>2, <1>3, <1>4, ReadsAreTrees DEF Processes, At
<1>6. PICK at \in {"rebased", "failing", "prepared"} :
         /\ Become(p, [mem EXCEPT !.at = at])
         /\ at = "prepared" => Conflicts(mem.base, mem.overlay, mem.current) = {}
         /\ at = "failing" => record' = [record EXCEPT ![proc[p].area] = "conflicted"]
         /\ at = "prepared" => UNCHANGED record
         /\ at = "rebased" => record' = [record EXCEPT ![proc[p].area] =
                                             IF @ = "conflicted" THEN "ready" ELSE @]
  BY <1>1, <1>5 DEF ReadTrees
<1>7. PICK s : s = [mem EXCEPT !.at = at]
  OBVIOUS
<1>8. /\ s \in Processes /\ s.at = at /\ s.op = mem.op /\ s.area = mem.area /\ s.base = mem.base
      /\ s.overlay = mem.overlay /\ s.current = mem.current /\ s.since = mem.since
      /\ s.before = mem.before /\ s.jobs = mem.jobs
  BY <1>5, <1>7 DEF Processes, Phases
<1>9. proc' \in [Procs -> Processes] /\ proc'[p] = s /\ Others(p)
  BY <1>2, <1>6, <1>7, <1>8, BecomeStep
<1>10. UNCHANGED <<tree, litter, backups, locks, disturbed, counters>>
  BY DEF ReadTrees
<1>11. /\ record' \in [Areas -> {"none", "bare", "ready", "conflicted", "promoted"}]
       /\ StayReadable
  BY <1>2, <1>3, <1>6 DEF Types, StayReadable, Readable
<1>12. Types' /\ LocksOf(p) /\ OthersBackups(p) /\ areaLock' = areaLock
       /\ promotionLock' = promotionLock /\ backups' = backups
  BY <1>2, <1>9, <1>10, <1>11 DEF Types, locks, counters, LocksOf, OthersBackups
<1>13. Holds(p)' /\ Busy(p)'
  BY <1>3, <1>5, <1>8, <1>9, <1>11, <1>12 DEF Holds, Busy, At, StayReadable, Promoting, Moving
<1>14. Orderly(p)'
  <2>1. backups'[p] = <<>>
    BY <1>2, <1>12 DEF Inv, Orderly, At, Moving
  <2> QED BY <1>8, <1>9, <2>1, RestingStep DEF Moving
<1> QED BY <1>5, <1>6, <1>8, <1>9, <1>11, <1>12, <1>13, <1>14 DEF Proper

\* What a process that has called _replace_trees has in memory.
Called(p, call, jobs) ==
    /\ Steady
    /\ proc'[p].at = "replacing" /\ proc'[p].call = call /\ proc'[p].jobs = jobs
    /\ proc'[p].installed = <<>> /\ proc'[p].original = [d \in Firsts(jobs) |-> tree[d]]
    /\ proc'[p].op = proc[p].op /\ proc'[p].area = proc[p].area
    /\ proc'[p].base = proc[p].base /\ proc'[p].current = proc[p].current
    /\ proc'[p].since = proc[p].since

LEMMA CallingStep ==
    ASSUME Inv, NEW p \in Procs, proc[p].at \in Locked \ (Moving \cup {"waiting"}),
           NEW call \in Calls \ {"none"}, NEW jobs \in Seq(Pairs),
           Become(p, Calling(p, call, jobs)), Steady,
           Distinct(jobs),
           Firsts(jobs) \subseteq IF call \in SourceCalls THEN {Src}
                                  ELSE {Base(proc[p].area), Overlay(proc[p].area)},
           call \in {"source", "sourceUndo", "base"}
               => proc[p].op = "promote" /\ proc[p].before # Absent
    PROVE  /\ Proper(p) /\ Called(p, call, jobs)
           /\ proc'[p].overlay = proc[p].overlay /\ proc'[p].before = proc[p].before
<1>1. PICK s : s = Calling(p, call, jobs)
  OBVIOUS
<1>2. /\ s \in Processes /\ s.at = "replacing" /\ s.call = call /\ s.jobs = jobs
      /\ s.installed = <<>> /\ s.original = [d \in Firsts(jobs) |-> tree[d]]
      /\ s.op = proc[p].op /\ s.area = proc[p].area
      /\ s.base = proc[p].base /\ s.overlay = proc[p].overlay
      /\ s.current = proc[p].current /\ s.before = proc[p].before
      /\ s.since = proc[p].since
  BY <1>1, CallingFields DEF Inv
<1>3. Proper(p) /\ proc'[p] = s
  BY <1>1, <1>2, CallStep
<1> QED BY <1>2, <1>3 DEF Called

LEMMA ReplacePairStep ==
    ASSUME Inv, NEW p \in Procs, ReplacePair(p)
    PROVE  /\ Proper(p)
           /\ Called(p, "rebase",
                 <<<<Base(proc[p].area), proc[p].current>>,
                   <<Overlay(proc[p].area),
                     Merge(proc[p].base, proc[p].overlay, proc[p].current)>>>>)
           /\ proc'[p].overlay = proc[p].overlay /\ proc'[p].before = proc[p].before
           /\ Merge(proc[p].base, proc[p].overlay, proc[p].current) \in Trees
<1>1. PICK m : m = Merge(proc[p].base, proc[p].overlay, proc[p].current)
  OBVIOUS
<1>2. /\ m \in Trees /\ proc[p].current \in Trees
  BY <1>1, Fields, MergeType DEF Inv
<1>3. PICK jobs : jobs = <<<<Base(proc[p].area), proc[p].current>>, <<Overlay(proc[p].area), m>>>>
  OBVIOUS
<1>4. At(p, "prepared") /\ Become(p, Calling(p, "rebase", jobs)) /\ Steady
  BY <1>1, <1>3 DEF ReplacePair, Steady
<1>5. /\ Base(proc[p].area) \in Dests /\ Overlay(proc[p].area) \in Dests
      /\ Base(proc[p].area) # Overlay(proc[p].area)
  BY <1>4, LockedFacts DEF At, Locked
<1>6. /\ jobs \in Seq(Pairs) /\ Firsts(jobs) = {Base(proc[p].area), Overlay(proc[p].area)}
      /\ Distinct(jobs)
  BY <1>2, <1>3, <1>5, TwoJobs
<1>7. /\ Proper(p) /\ Called(p, "rebase", jobs)
      /\ proc'[p].overlay = proc[p].overlay /\ proc'[p].before = proc[p].before
  BY <1>4, <1>6, CallingStep DEF At, Locked, Moving, Calls, SourceCalls
<1> QED BY <1>1, <1>2, <1>3, <1>7

LEMMA RevertStep ==
    ASSUME Inv, NEW p \in Procs, Revert(p)
    PROVE  /\ Proper(p)
           /\ Called(p, "rebaseUndo", <<<<Base(proc[p].area), proc[p].base>>,
                                        <<Overlay(proc[p].area), proc[p].overlay>>>>)
           /\ proc'[p].overlay = proc[p].overlay /\ proc'[p].before = proc[p].before
<1>2. /\ proc[p].base \in Trees /\ proc[p].overlay \in Trees
  BY Fields DEF Inv
<1>3. PICK jobs : jobs = <<<<Base(proc[p].area), proc[p].base>>,
                           <<Overlay(proc[p].area), proc[p].overlay>>>>
  OBVIOUS
<1>4. At(p, "reverting") /\ Become(p, Calling(p, "rebaseUndo", jobs)) /\ Steady
  BY <1>3 DEF Revert, Steady
<1>5. /\ Base(proc[p].area) \in Dests /\ Overlay(proc[p].area) \in Dests
      /\ Base(proc[p].area) # Overlay(proc[p].area)
  BY <1>4, LockedFacts DEF At, Locked
<1>6. /\ jobs \in Seq(Pairs) /\ Firsts(jobs) = {Base(proc[p].area), Overlay(proc[p].area)}
      /\ Distinct(jobs)
  BY <1>2, <1>3, <1>5, TwoJobs
<1>7. /\ Proper(p) /\ Called(p, "rebaseUndo", jobs)
      /\ proc'[p].overlay = proc[p].overlay /\ proc'[p].before = proc[p].before
  BY <1>4, <1>6, CallingStep DEF At, Locked, Moving, Calls, SourceCalls
<1> QED BY <1>3, <1>7

LEMMA CommitStep ==
    ASSUME Inv, NEW p \in Procs, Commit(p)
    PROVE  Proper(p) /\ proc'[p].at = "rebased" /\ proc'[p].op = proc[p].op
                     /\ SameMemory(p) /\ SameCall(p)
<1>1. /\ At(p, "committing") /\ record' = [record EXCEPT ![proc[p].area] = "ready"]
      /\ Go(p, "rebased")
      /\ UNCHANGED <<tree, litter, backups, locks, disturbed, counters>>
  BY DEF Commit
<1>2. /\ areaLock[proc[p].area] = p /\ Readable(proc[p].area)
      /\ proc[p].op = "promote" => promotionLock = p
  BY <1>1, LockedFacts DEF At, Locked
<1>3. StayReadable /\ LocksOf(p)
  BY <1>1 DEF Inv, Types, StayReadable, Readable, LocksOf, locks
<1>4. /\ tree' \in [Dests -> MaybeTree] /\ litter' \in [Dests -> SUBSET Trees]
      /\ record' \in [Areas -> {"none", "bare", "ready", "conflicted", "promoted"}]
      /\ areaLock' \in [Areas -> Procs \cup {Nobody}] /\ promotionLock' \in Procs \cup {Nobody}
      /\ faults' \in 0 .. MaxFaults /\ UNCHANGED <<backups, buildLock, edits, ops>>
      /\ areaLock' = areaLock /\ promotionLock' = promotionLock
  BY <1>1 DEF Inv, Types, locks, counters
<1> QED BY <1>1, <1>2, <1>3, <1>4, PhaseStep DEF At, Phases, Moving

LEMMA CallFailsStep ==
    ASSUME Inv, NEW p \in Procs, CallFails(p)
    PROVE  /\ Proper(p) /\ proc'[p].op = proc[p].op /\ SameMemory(p) /\ SameCall(p)
           /\ At(p, "prepared") => proc'[p].at = "failing"
           /\ At(p, "committing") => proc'[p].at = "reverting"
           /\ At(p, "sourced") => proc'[p].at = "handling"
<1>1. /\ proc[p].at \in {"prepared", "committing", "sourced"} /\ faults' \in 0 .. MaxFaults
      /\ UNCHANGED <<tree, litter, backups, record, locks, disturbed, edits, ops>>
  BY FaultStep DEF CallFails, Inv
<1>2. /\ areaLock[proc[p].area] = p /\ Readable(proc[p].area)
      /\ proc[p].op = "promote" => promotionLock = p
      /\ At(p, "sourced") => proc[p].op = "promote" /\ proc[p].before # Absent
  BY <1>1, LockedFacts DEF At, Locked, Inv, Holds, Promoting
<1>3. PICK at : /\ at = CASE At(p, "prepared") -> "failing"
                          [] At(p, "committing") -> "reverting"
                          [] At(p, "sourced") -> "handling"
                /\ Go(p, at)
  BY DEF CallFails
<1>4. /\ At(p, "prepared") => at = "failing"
      /\ At(p, "committing") => at = "reverting"
      /\ At(p, "sourced") => at = "handling"
      /\ at \in {"failing", "reverting", "handling"}
  BY <1>1, <1>3 DEF At
<1>5. Proper(p) /\ proc'[p].at = at /\ proc'[p].op = proc[p].op /\ SameMemory(p) /\ SameCall(p)
  BY <1>1, <1>2, <1>3, <1>4, PlainStep DEF At, Phases, Moving
<1> QED BY <1>4, <1>5

\* Steps that end the work of a process.
LEMMA EndStep ==
    ASSUME Inv, NEW p \in Procs, Leave(p), backups'[p] = <<>>, OthersBackups(p), StayReadable,
           tree' \in [Dests -> MaybeTree], litter' \in [Dests -> SUBSET Trees],
           backups' \in [Procs -> Seq(Pairs)],
           record' \in [Areas -> {"none", "bare", "ready", "conflicted", "promoted"}],
           faults' \in 0 .. MaxFaults, UNCHANGED <<edits, ops>>
    PROVE  Proper(p) /\ proc'[p] = Idle
<1>1. /\ proc' \in [Procs -> Processes] /\ Others(p) /\ proc'[p] = Idle /\ LocksOf(p)
      /\ areaLock' \in [Areas -> Procs \cup {Nobody}]
      /\ promotionLock' \in Procs \cup {Nobody} /\ buildLock' \in Procs \cup {Nobody}
      /\ Busy(p)' /\ Holds(p)'
  BY LeaveStep
<1>2. Types'
  BY <1>1 DEF Inv, Types
<1>3. Orderly(p)'
  BY <1>1, IdleFields, RestingStep DEF Moving
<1> QED BY <1>1, <1>2, <1>3 DEF Proper

LEMMA FinishStep ==
    ASSUME Inv, NEW p \in Procs, Finish(p)
    PROVE  Proper(p) /\ proc'[p] = Idle
<1>1. proc[p].at \notin Moving /\ Leave(p)
      /\ UNCHANGED <<tree, litter, backups, record, disturbed, counters>>
  BY DEF Finish, At, Moving
<1>2. backups'[p] = <<>> /\ OthersBackups(p) /\ StayReadable
  BY <1>1 DEF Inv, Orderly, OthersBackups, StayReadable, Readable
<1> QED BY <1>1, <1>2, EndStep DEF Inv, Types, counters

LEMMA RecordPromotionStep ==
    ASSUME Inv, NEW p \in Procs, RecordPromotion(p)
    PROVE  Proper(p) /\ proc'[p] = Idle
<1>1. /\ proc[p].at \notin Moving /\ Leave(p) /\ record' = [record EXCEPT ![proc[p].area] = "promoted"]
      /\ UNCHANGED <<tree, litter, backups, disturbed, counters>>
  BY DEF RecordPromotion, At, Moving
<1>2. backups'[p] = <<>> /\ OthersBackups(p)
  BY <1>1 DEF Inv, Orderly, OthersBackups
<1>3. /\ StayReadable
      /\ record' \in [Areas -> {"none", "bare", "ready", "conflicted", "promoted"}]
  BY <1>1 DEF Inv, Types, StayReadable, Readable
<1> QED BY <1>1, <1>2, <1>3, EndStep DEF Inv, Types, counters

LEMMA ReplaceSourceStep ==
    ASSUME Inv, NEW p \in Procs, ReplaceSource(p)
    PROVE  /\ Proper(p) /\ At(p, "rebased") /\ proc[p].op = "promote"
           /\ \/ /\ proc'[p].at = "failing" /\ proc'[p].op = proc[p].op
                 /\ Steady /\ SameMemory(p) /\ SameCall(p)
              \/ /\ Called(p, "source", <<<<Src, Read(Overlay(proc[p].area))>>>>)
                 /\ proc'[p].overlay = Read(Overlay(proc[p].area))
                 /\ proc'[p].before = Read(Src)
<1>1. At(p, "rebased") /\ proc[p].op = "promote" /\ Steady /\ Types
  BY DEF ReplaceSource, Steady, Inv
<1>2. /\ areaLock[proc[p].area] = p /\ Readable(proc[p].area) /\ promotionLock = p
      /\ Overlay(proc[p].area) \in Dests
  BY <1>1, LockedFacts DEF At, Locked
<1>3. PICK staged : staged = Read(Overlay(proc[p].area))
  OBVIOUS
<1>4. staged \in Trees /\ Read(Src) \in Trees /\ Src \in Dests
  BY <1>1, <1>2, <1>3, ReadsAreTrees, DestinationsAreGiven
<1>5. CASE Go(p, "failing")
  <2>1. /\ Proper(p) /\ proc'[p].at = "failing" /\ proc'[p].op = proc[p].op
        /\ SameMemory(p) /\ SameCall(p)
    BY <1>1, <1>2, <1>5, PlainStep DEF At, Phases, Moving, Locked, Steady, counters, Types
  <2> QED BY <1>1, <2>1
<1>6. CASE ~ Go(p, "failing")
  <2>1. PICK jobs : jobs = <<<<Src, staged>>>>
    OBVIOUS
  <2>2. /\ jobs \in Seq(Pairs) /\ Firsts(jobs) = {Src}
        /\ Distinct(jobs)
    BY <1>4, <2>1, OneJob
  <2>3. PICK c, call : call = "source" /\ c = Calling(p, call, jobs)
    OBVIOUS
  <2>4. /\ c \in Processes /\ c.at = "replacing" /\ c.call = call /\ c.jobs = jobs
        /\ c.installed = <<>> /\ c.original = [d \in Firsts(jobs) |-> tree[d]]
        /\ c.op = proc[p].op /\ c.area = proc[p].area /\ c.base = proc[p].base
        /\ c.current = proc[p].current /\ c.since = proc[p].since
    <3>1. call \in Calls /\ c = Calling(p, call, jobs) /\ jobs \in Seq(Pairs) /\ Types
      BY <1>1, <2>2, <2>3 DEF Calls
    <3> QED BY <3>1, CallingFields
  <2>5. PICK s : s = [c EXCEPT !.overlay = staged, !.before = Read(Src)]
    OBVIOUS
  <2>6. /\ s \in Processes /\ s.at = "replacing" /\ s.call = "source" /\ s.jobs = jobs
        /\ s.installed = <<>> /\ s.original = [d \in Firsts(jobs) |-> tree[d]]
        /\ s.op = proc[p].op /\ s.area = proc[p].area /\ s.base = proc[p].base
        /\ s.current = proc[p].current /\ s.since = proc[p].since
        /\ s.overlay = staged /\ s.before = Read(Src)
    BY <1>4, <2>3, <2>4, <2>5 DEF Processes, MaybeTree
  <2>7. Become(p, s)
    BY <1>3, <1>6, <2>1, <2>3, <2>5 DEF ReplaceSource
  <2>8. s.before # Absent
    BY <1>4, <2>6, AbsentIsNoTree
  <2>9. Proper(p) /\ proc'[p] = s
    BY <1>1, <2>2, <2>6, <2>7, <2>8, CallStep DEF At, Locked, Moving, Calls, SourceCalls
  <2>10. Called(p, "source", jobs) /\ proc'[p].overlay = staged /\ proc'[p].before = Read(Src)
    BY <1>1, <2>6, <2>9 DEF Called
  <2> QED BY <1>1, <1>3, <2>1, <2>9, <2>10
<1> QED BY <1>5, <1>6

LEMMA ReplaceBaseStep ==
    ASSUME Inv, NEW p \in Procs, ReplaceBase(p)
    PROVE  /\ Proper(p) /\ At(p, "sourced")
           /\ Called(p, "base", <<<<Base(proc[p].area), proc[p].overlay>>>>)
           /\ proc'[p].overlay = proc[p].overlay /\ proc'[p].before = proc[p].before
<1>1. PICK jobs : jobs = <<<<Base(proc[p].area), proc[p].overlay>>>>
  OBVIOUS
<1>2. At(p, "sourced") /\ Become(p, Calling(p, "base", jobs)) /\ Steady
  BY <1>1 DEF ReplaceBase, Steady
<1>3. proc[p].op = "promote" /\ proc[p].before # Absent
  BY <1>2 DEF Inv, Holds, Promoting, At
<1>4. Base(proc[p].area) \in Dests /\ proc[p].overlay \in Trees
  BY <1>2, LockedFacts, Fields DEF At, Locked, Inv
<1>5. /\ jobs \in Seq(Pairs) /\ Firsts(jobs) = {Base(proc[p].area)}
      /\ Distinct(jobs)
  BY <1>1, <1>4, OneJob
<1>6. /\ Proper(p) /\ Called(p, "base", jobs)
      /\ proc'[p].overlay = proc[p].overlay /\ proc'[p].before = proc[p].before
  BY <1>2, <1>3, <1>5, CallingStep DEF At, Locked, Moving, Calls, SourceCalls
<1> QED BY <1>1, <1>2, <1>6

LEMMA HandleStep ==
    ASSUME Inv, NEW p \in Procs, Handle(p)
    PROVE  /\ Proper(p) /\ At(p, "handling")
           /\ \/ /\ proc'[p].at = "failing" /\ proc'[p].op = proc[p].op
                 /\ Steady /\ SameMemory(p) /\ SameCall(p)
              \/ /\ Called(p, "sourceUndo", <<<<Src, proc[p].before>>>>)
                 /\ proc'[p].overlay = proc[p].overlay /\ proc'[p].before = proc[p].before
<1>1. At(p, "handling") /\ Steady /\ Types
  BY DEF Handle, Steady, Inv
<1>2. /\ proc[p].op = "promote" /\ proc[p].before # Absent /\ promotionLock = p
      /\ areaLock[proc[p].area] = p
  BY <1>1, LockedFacts DEF Inv, Holds, Promoting, At, Locked
<1>3. CASE Go(p, "failing")
  <2>1. /\ Proper(p) /\ proc'[p].at = "failing" /\ proc'[p].op = proc[p].op
        /\ SameMemory(p) /\ SameCall(p)
    BY <1>1, <1>2, <1>3, PlainStep DEF At, Phases, Moving, Locked, Steady, counters, Types
  <2> QED BY <1>1, <2>1
<1>4. CASE ~ Go(p, "failing")
  <2>1. PICK jobs : jobs = <<<<Src, proc[p].before>>>>
    OBVIOUS
  <2>2. Become(p, Calling(p, "sourceUndo", jobs))
    BY <1>4, <2>1 DEF Handle
  <2>3. proc[p].before \in Trees /\ Src \in Dests
    BY <1>1, <1>2, Fields, DestinationsAreGiven DEF MaybeTree
  <2>4. /\ jobs \in Seq(Pairs) /\ Firsts(jobs) = {Src}
        /\ Distinct(jobs)
    BY <2>1, <2>3, OneJob
  <2>5. /\ Proper(p) /\ Called(p, "sourceUndo", jobs)
        /\ proc'[p].overlay = proc[p].overlay /\ proc'[p].before = proc[p].before
    BY <1>1, <1>2, <2>2, <2>4, CallingStep DEF At, Locked, Moving, Calls, SourceCalls
  <2> QED BY <1>1, <2>1, <2>5
<1> QED BY <1>3, <1>4

----------------------------------------------------------------------------
(* The making of areas, and integration.                                   *)

LEMMA MakingFacts ==
    ASSUME Inv, NEW p \in Procs, proc[p].at \in {"copying", "importing"}
    PROVE  /\ proc[p].area \in Areas /\ areaLock[proc[p].area] = p
           /\ proc[p].op = "promote" => promotionLock = p
           /\ Base(proc[p].area) \in Dests /\ Overlay(proc[p].area) \in Dests
           /\ backups[p] = <<>>
BY DestinationsAreGiven DEF Inv, Holds, Orderly, At, Moving

\* Steps that change a tree and nothing of a process.
LEMMA TreeStep ==
    ASSUME Inv, NEW p \in Procs, tree' \in [Dests -> MaybeTree],
           UNCHANGED <<litter, backups, record, locks, proc, ops, faults>>,
           edits' \in 0 .. MaxEdits
    PROVE  Proper(p)
<1>1. Types' /\ LocksOf(p) /\ OthersBackups(p) /\ StayReadable /\ Others(p)
  BY DEF Inv, Types, locks, LocksOf, OthersBackups, StayReadable, Readable, Others
<1>2. Busy(p) /\ Holds(p) /\ Orderly(p) /\ UNCHANGED <<areaLock, promotionLock, buildLock>>
  BY DEF Inv, locks
<1>3. Busy(p)'
  BY <1>2 DEF Busy, At
<1>4. Holds(p)'
  BY <1>2 DEF Holds, At, Readable, Promoting
<1>5. Orderly(p)'
  BY <1>2 DEF Orderly, At, Target, Pending, Installed, Saved, Own
<1> QED BY <1>1, <1>3, <1>4, <1>5 DEF Proper

LEMMA PutStep ==
    ASSUME Types, NEW d \in Dests, NEW t \in MaybeTree, Put(d, t)
    PROVE  /\ tree' \in [Dests -> MaybeTree] /\ tree'[d] = t
           /\ \A e \in Dests : e # d => tree'[e] = tree[e]
BY DEF Types, Put

LEMMA CopyTreeStep ==
    ASSUME Inv, NEW p \in Procs, CopyTree(p)
    PROVE  /\ Proper(p) /\ At(p, "copying")
           /\ UNCHANGED <<litter, backups, record, locks, disturbed, counters>>
           /\ \/ /\ proc'[p].at = "failing" /\ proc'[p].op = proc[p].op
                 /\ UNCHANGED tree /\ SameMemory(p) /\ SameCall(p)
              \/ /\ UNCHANGED proc
                 /\ \E d \in {Base(proc[p].area), Overlay(proc[p].area)} :
                       /\ tree[d] = Absent /\ tree[Src] # Absent /\ tree'[d] = tree[Src]
                       /\ \A e \in Dests : e # d => tree'[e] = tree[e]
<1>1. At(p, "copying") /\ UNCHANGED <<litter, backups, record, locks, disturbed, counters>>
      /\ tree[Overlay(proc[p].area)] = Absent
  BY DEF CopyTree
<1>2. /\ proc[p].area \in Areas /\ areaLock[proc[p].area] = p /\ Types
      /\ proc[p].op = "promote" => promotionLock = p
      /\ Base(proc[p].area) \in Dests /\ Overlay(proc[p].area) \in Dests
  BY <1>1, MakingFacts DEF At, Inv
<1>3. CASE tree[Src] = Absent
  <2>1. Go(p, "failing") /\ UNCHANGED tree
    BY <1>3 DEF CopyTree
  <2>2. /\ Proper(p) /\ proc'[p].at = "failing" /\ proc'[p].op = proc[p].op
        /\ SameMemory(p) /\ SameCall(p)
    BY <1>1, <1>2, <2>1, PlainStep DEF At, Phases, Moving, Locked, counters, Types
  <2> QED BY <1>1, <2>1, <2>2
<1>4. CASE tree[Src] # Absent
  <2>1. PICK d : d = IF tree[Base(proc[p].area)] = Absent THEN Base(proc[p].area)
                     ELSE Overlay(proc[p].area)
    OBVIOUS
  <2>2. d \in {Base(proc[p].area), Overlay(proc[p].area)} /\ tree[d] = Absent
    BY <1>1, <2>1
  <2>3. Put(d, tree[Src]) /\ UNCHANGED proc
    BY <1>4, <2>1 DEF CopyTree
  <2>4. tree[Src] \in MaybeTree
    BY <1>2, DestinationsAreGiven DEF Types
  <2>5. /\ tree' \in [Dests -> MaybeTree] /\ tree'[d] = tree[Src]
        /\ \A e \in Dests : e # d => tree'[e] = tree[e]
    BY <1>2, <2>2, <2>3, <2>4, PutStep
  <2>6. Proper(p)
    BY <1>1, <1>2, <2>3, <2>5, TreeStep DEF counters, Types
  <2> QED BY <1>1, <1>4, <2>2, <2>3, <2>5, <2>6
<1> QED BY <1>3, <1>4

LEMMA ImportTreeStep ==
    ASSUME Inv, NEW p \in Procs, ImportTree(p)
    PROVE  /\ Proper(p) /\ At(p, "importing") /\ UNCHANGED proc
           /\ UNCHANGED <<litter, backups, record, locks, disturbed, counters>>
           /\ \E d \in {Base(proc[p].area), Overlay(proc[p].area)}, t \in {LegacyWork, LegacyRoot} :
                 /\ tree[d] = Absent /\ tree'[d] = t
                 /\ \A e \in Dests : e # d => tree'[e] = tree[e]
<1>1. At(p, "importing") /\ UNCHANGED <<litter, backups, record, locks, proc, disturbed, counters>>
      /\ tree[Base(proc[p].area)] = Absent
  BY DEF ImportTree
<1>2. /\ proc[p].area \in Areas /\ Types
      /\ Base(proc[p].area) \in Dests /\ Overlay(proc[p].area) \in Dests
  BY <1>1, MakingFacts DEF At, Inv
<1>3. PICK d \in {Base(proc[p].area), Overlay(proc[p].area)}, t \in {LegacyWork, LegacyRoot} :
         Put(d, t) /\ tree[d] = Absent
  BY <1>1 DEF ImportTree
<1>4. t \in MaybeTree
  BY TreesAreGiven DEF MaybeTree
<1>5. /\ tree' \in [Dests -> MaybeTree] /\ tree'[d] = t
      /\ \A e \in Dests : e # d => tree'[e] = tree[e]
  BY <1>2, <1>3, <1>4, PutStep
<1>6. Proper(p)
  BY <1>1, <1>2, <1>5, TreeStep DEF counters, Types
<1> QED BY <1>1, <1>3, <1>5, <1>6

LEMMA WriteRecordStep ==
    ASSUME Inv, NEW p \in Procs, WriteRecord(p)
    PROVE  Proper(p) /\ proc'[p] = Idle
<1>1. /\ proc[p].at \notin Moving /\ Leave(p) /\ record' = [record EXCEPT ![proc[p].area] = "ready"]
      /\ UNCHANGED <<tree, litter, backups, disturbed, counters>>
  BY DEF WriteRecord, At, Moving
<1>2. backups'[p] = <<>> /\ OthersBackups(p)
  BY <1>1 DEF Inv, Orderly, OthersBackups
<1>3. /\ StayReadable
      /\ record' \in [Areas -> {"none", "bare", "ready", "conflicted", "promoted"}]
  BY <1>1 DEF Inv, Types, StayReadable, Readable
<1> QED BY <1>1, <1>2, <1>3, EndStep DEF Inv, Types, counters

LEMMA LockAreaStep ==
    ASSUME Inv, NEW p \in Procs, LockArea(p)
    PROVE  /\ Proper(p) /\ proc'[p].op = proc[p].op /\ SameMemory(p) /\ SameCall(p)
           /\ proc'[p].at \in {"reading", "failing"}
<1>1. /\ At(p, "entering") /\ Lock(p, proc[p].area)
      /\ Go(p, IF Readable(proc[p].area) THEN "reading" ELSE "failing")
      /\ UNCHANGED <<tree, litter, backups, record, promotionLock, buildLock, disturbed, counters>>
  BY DEF LockArea
<1>2. proc[p].area \in Areas /\ Types
  BY <1>1 DEF Inv, Holds, At
<1>3. /\ areaLock[proc[p].area] = Nobody /\ areaLock' = [areaLock EXCEPT ![proc[p].area] = p]
      /\ areaLock' \in [Areas -> Procs \cup {Nobody}] /\ areaLock'[proc[p].area] = p
  BY <1>1, <1>2 DEF Lock, Types
<1>4. PICK at \in {"reading", "failing"} : Go(p, at) /\ (at = "reading" => Readable(proc[p].area))
  BY <1>1
<1>5. StayReadable /\ LocksOf(p)
  BY <1>1, <1>3 DEF StayReadable, Readable, LocksOf
<1>6. proc[p].op = "promote" => promotionLock = p
  BY <1>1 DEF Inv, Holds, At
<1>7. /\ Proper(p) /\ proc'[p].at = at /\ proc'[p].op = proc[p].op
      /\ SameMemory(p) /\ SameCall(p)
  BY <1>1, <1>2, <1>3, <1>4, <1>5, <1>6, PhaseStep DEF At, Phases, Moving, Locked, Types, counters
<1> QED BY <1>7

LEMMA UnlockStep ==
    ASSUME Inv, NEW p \in Procs, proc[p].area \in Areas, areaLock[proc[p].area] = p, Unlock(p)
    PROVE  /\ areaLock' \in [Areas -> Procs \cup {Nobody}]
           /\ \A a \in Areas : areaLock'[a] = areaLock[a]
                                  \/ {areaLock[a], areaLock'[a]} \subseteq {p, Nobody}
BY DEF Unlock, Inv, Types

LEMMA ReconciledStep ==
    ASSUME Inv, NEW p \in Procs, Reconciled(p)
    PROVE  /\ Proper(p) /\ proc'[p].op = proc[p].op /\ SameMemory(p) /\ SameCall(p)
           /\ At(p, "rebased") /\ proc'[p].at = "integrating"
<1>1. /\ At(p, "rebased") /\ proc[p].op = "reconcile" /\ Unlock(p) /\ Go(p, "integrating")
      /\ UNCHANGED <<tree, litter, backups, record, promotionLock, buildLock, disturbed, counters>>
  BY DEF Reconciled
<1>2. proc[p].area \in Areas /\ areaLock[proc[p].area] = p /\ Types
  BY <1>1, LockedFacts DEF At, Locked, Inv
<1>3. /\ areaLock' \in [Areas -> Procs \cup {Nobody}] /\ LocksOf(p) /\ StayReadable
  BY <1>1, <1>2, UnlockStep DEF LocksOf, StayReadable, Readable
<1>4. /\ Proper(p) /\ proc'[p].at = "integrating" /\ proc'[p].op = proc[p].op
      /\ SameMemory(p) /\ SameCall(p)
  BY <1>1, <1>2, <1>3, PhaseStep DEF At, Phases, Moving, Locked, Types, counters
<1> QED BY <1>1, <1>4

LEMMA NotAcceptedStep ==
    ASSUME Inv, NEW p \in Procs, NotAccepted(p)
    PROVE  /\ Proper(p) /\ proc'[p].op = proc[p].op /\ SameMemory(p) /\ SameCall(p)
           /\ At(p, "failing") /\ proc'[p].at = "restoring" /\ proc[p].op = "accept"
<1>1. /\ At(p, "failing") /\ proc[p].op = "accept" /\ Unlock(p) /\ Go(p, "restoring")
      /\ UNCHANGED <<tree, litter, backups, record, promotionLock, buildLock, disturbed, counters>>
  BY DEF NotAccepted
<1>2. proc[p].area \in Areas /\ areaLock[proc[p].area] = p /\ Types
  BY <1>1 DEF Inv, Holds, At
<1>3. /\ areaLock' \in [Areas -> Procs \cup {Nobody}] /\ LocksOf(p) /\ StayReadable
  BY <1>1, <1>2, UnlockStep DEF LocksOf, StayReadable, Readable
<1>4. /\ Proper(p) /\ proc'[p].at = "restoring" /\ proc'[p].op = proc[p].op
      /\ SameMemory(p) /\ SameCall(p)
  BY <1>1, <1>2, <1>3, PhaseStep DEF At, Phases, Moving, Locked, Types, counters
<1> QED BY <1>1, <1>4


LEMMA BackUpStep ==
    ASSUME Inv, NEW p \in Procs, BackUp(p)
    PROVE  /\ Proper(p) /\ At(p, "integrating") /\ proc'[p].op = proc[p].op
           /\ UNCHANGED <<tree, backups, record, locks, counters>>
           /\ disturbed \subseteq disturbed' /\ disturbed' \subseteq disturbed \cup {"no backup"}
           /\ \A d \in Dests : litter[d] \subseteq litter'[d]
           /\ \/ proc'[p].at = "failing"
              \/ proc'[p].at = "applying" /\ (litter'[Src] # {} \/ "no backup" \in disturbed')
           /\ proc'[p].base = proc[p].base /\ proc'[p].overlay = proc[p].overlay
           /\ proc'[p].current = proc[p].current /\ proc'[p].since = proc[p].since
           /\ proc'[p].before \in {proc[p].before, tree[Src]}
           /\ proc'[p].area = proc[p].area /\ SameCall(p)
<1>1. /\ At(p, "integrating") /\ UNCHANGED <<tree, backups, record, locks, counters>>
      /\ Types /\ Src \in Dests /\ Holds(p) /\ Orderly(p)
  BY DestinationsAreGiven DEF BackUp, Inv
<1>2. proc[p].op = "promote" => promotionLock = p
  BY <1>1 DEF Holds, At
<1>3. CASE Go(p, "failing") /\ UNCHANGED <<litter, disturbed>>
  <2>1. /\ Proper(p) /\ proc'[p].at = "failing" /\ proc'[p].op = proc[p].op
        /\ SameMemory(p) /\ SameCall(p)
    <3>1. UNCHANGED <<tree, litter, backups, record, locks, edits, ops>> /\ faults' \in 0 .. MaxFaults
      BY <1>1, <1>3 DEF Types, counters
    <3>2. proc[p].op = "reconcile"
      BY <1>1 DEF Holds
    <3> QED BY <1>1, <1>2, <1>3, <3>1, <3>2, PlainStep DEF At, Phases, Moving, Locked
  <2> QED BY <1>1, <1>3, <2>1 DEF SameMemory
<1>4. CASE ~ (Go(p, "failing") /\ UNCHANGED <<litter, disturbed>>)
  <2>1. PICK s : s = [proc[p] EXCEPT !.at = "applying", !.before = tree[Src]]
    OBVIOUS
  <2>2. proc[p] \in Processes /\ tree[Src] \in MaybeTree
    BY <1>1 DEF Types
  <2>3. /\ s \in Processes /\ s.at = "applying" /\ s.op = proc[p].op /\ s.area = proc[p].area
        /\ s.base = proc[p].base /\ s.overlay = proc[p].overlay /\ s.current = proc[p].current
        /\ s.since = proc[p].since /\ s.before = tree[Src] /\ s.call = proc[p].call
        /\ s.jobs = proc[p].jobs /\ s.installed = proc[p].installed
        /\ s.original = proc[p].original
    BY <2>1, <2>2 DEF Processes, Phases
  <2>4. /\ Become(p, s)
        /\ disturbed' = disturbed \cup (IF tree[Src] = Absent THEN {"no backup"} ELSE {})
        /\ litter' = [litter EXCEPT ![Src] = IF tree[Src] = Absent THEN @ ELSE @ \cup {tree[Src]}]
    BY <1>4, <2>1 DEF BackUp
  <2>5. proc' \in [Procs -> Processes] /\ proc'[p] = s /\ Others(p)
    BY <1>1, <2>3, <2>4, BecomeStep
  <2>6. /\ litter' \in [Dests -> SUBSET Trees]
        /\ \A d \in Dests : litter[d] \subseteq litter'[d]
        /\ litter'[Src] # {} \/ "no backup" \in disturbed'
    BY <1>1, <2>2, <2>4 DEF Types, MaybeTree
  <2>7. Types'
    BY <1>1, <2>5, <2>6 DEF Types, locks, counters
  <2>8. LocksOf(p) /\ OthersBackups(p) /\ StayReadable
    BY <1>1 DEF LocksOf, OthersBackups, StayReadable, Readable, locks
  <2>9. Holds(p)' /\ Busy(p)'
    BY <1>1, <1>2, <2>3, <2>5 DEF Holds, Busy, At, Locked, Moving, Promoting, locks
  <2>10. Orderly(p)'
    <3>1. backups'[p] = <<>>
      BY <1>1 DEF Orderly, At, Moving
    <3> QED BY <2>3, <2>5, <3>1, RestingStep DEF Moving
  <2>11. Proper(p)
    BY <2>5, <2>7, <2>8, <2>9, <2>10 DEF Proper
  <2>12. disturbed \subseteq disturbed' /\ disturbed' \subseteq disturbed \cup {"no backup"}
    BY <2>4
  <2> QED BY <1>1, <2>3, <2>5, <2>6, <2>11, <2>12 DEF SameCall
<1> QED BY <1>3, <1>4

\* Only src/ may have changed.
OnlySource == \A d \in Dests : d # Src => tree'[d] = tree[d]

LEMMA SourcePut ==
    ASSUME Types, NEW t \in MaybeTree, Put(Src, t)
    PROVE  tree' \in [Dests -> MaybeTree] /\ tree'[Src] = t /\ OnlySource
BY PutStep, DestinationsAreGiven DEF OnlySource

LEMMA ApplyStep ==
    ASSUME Inv, NEW p \in Procs, Apply(p)
    PROVE  /\ Proper(p) /\ At(p, "applying") /\ disturbed' = disturbed \cup {"integration"}
           /\ UNCHANGED <<litter, backups, record, locks, edits, ops>> /\ OnlySource
           /\ proc'[p].at \in {"entering", "restoring"} /\ SameMemory(p) /\ SameCall(p)
           /\ proc[p].area \in Areas /\ tree'[Src] # Absent
           /\ \/ tree'[Src] = tree[Overlay(proc[p].area)]
              \/ tree'[Src] = Read(Src)
              \/ /\ tree[Overlay(proc[p].area)] # Absent
                 /\ \A f \in Paths : tree'[Src][f] \in {tree[Overlay(proc[p].area)][f], Read(Src)[f]}
<1>1. /\ At(p, "applying") /\ UNCHANGED <<litter, backups, record, locks, edits, ops>>
      /\ disturbed' = disturbed \cup {"integration"}
      /\ Types /\ Src \in Dests /\ Holds(p) /\ Orderly(p)
  BY DestinationsAreGiven DEF Apply, Inv
<1>2. /\ proc[p].area \in Areas /\ Overlay(proc[p].area) \in Dests
      /\ proc[p].op = "promote" => promotionLock = p
  BY <1>1, DestinationsAreGiven DEF Holds, At
<1>3. PICK from : from = tree[Overlay(proc[p].area)]
  OBVIOUS
<1>4. from \in MaybeTree /\ Read(Src) \in Trees
  BY <1>1, <1>2, <1>3, ReadsAreTrees DEF Types
<1>5. CASE /\ from # Absent /\ Put(Src, from)
           /\ Become(p, [proc[p] EXCEPT !.at = "entering", !.op = "accept"])
           /\ UNCHANGED faults
  <2>1. PICK s : s = [proc[p] EXCEPT !.at = "entering", !.op = "accept"]
    OBVIOUS
  <2>2. proc[p] \in Processes
    BY <1>1 DEF Types
  <2>3. /\ s \in Processes /\ s.at = "entering" /\ s.op = "accept" /\ s.area = proc[p].area
        /\ s.base = proc[p].base /\ s.overlay = proc[p].overlay /\ s.current = proc[p].current
        /\ s.since = proc[p].since /\ s.before = proc[p].before /\ s.call = proc[p].call
        /\ s.jobs = proc[p].jobs /\ s.installed = proc[p].installed
        /\ s.original = proc[p].original
    BY <2>1, <2>2 DEF Processes, Phases, Operations
  <2>4. proc' \in [Procs -> Processes] /\ proc'[p] = s /\ Others(p)
    BY <1>1, <1>5, <2>1, <2>3, BecomeStep
  <2>5. tree' \in [Dests -> MaybeTree] /\ tree'[Src] = from /\ OnlySource
    BY <1>1, <1>4, <1>5, SourcePut
  <2>6. Types'
    BY <1>1, <1>5, <2>4, <2>5 DEF Types, locks
  <2>7. LocksOf(p) /\ OthersBackups(p) /\ StayReadable
    BY <1>1 DEF LocksOf, OthersBackups, StayReadable, Readable, locks
  <2>8. Holds(p)' /\ Busy(p)'
    BY <1>1, <1>2, <2>3, <2>4 DEF Holds, Busy, At, Locked, Moving, Promoting, locks
  <2>9. Orderly(p)'
    <3>1. backups'[p] = <<>>
      BY <1>1 DEF Orderly, At, Moving
    <3> QED BY <2>3, <2>4, <3>1, RestingStep DEF Moving
  <2>10. Proper(p)
    BY <2>4, <2>6, <2>7, <2>8, <2>9 DEF Proper
  <2> QED BY <1>1, <1>2, <1>3, <1>5, <2>3, <2>4, <2>5, <2>10 DEF SameCall, SameMemory
<1>6. ASSUME NEW t \in Trees, Put(Src, t), Go(p, "restoring"), faults' \in 0 .. MaxFaults
      PROVE  /\ Proper(p) /\ OnlySource /\ tree'[Src] = t /\ t # Absent
             /\ proc'[p].at = "restoring" /\ SameMemory(p) /\ SameCall(p)
  <2>1. tree' \in [Dests -> MaybeTree] /\ tree'[Src] = t /\ OnlySource /\ t # Absent
    BY <1>1, <1>6, SourcePut, AbsentIsNoTree DEF MaybeTree
  <2>2. LocksOf(p) /\ StayReadable
    BY <1>1 DEF LocksOf, StayReadable, Readable, locks
  <2>3. /\ litter' \in [Dests -> SUBSET Trees]
        /\ record' \in [Areas -> {"none", "bare", "ready", "conflicted", "promoted"}]
        /\ areaLock' \in [Areas -> Procs \cup {Nobody}] /\ promotionLock' \in Procs \cup {Nobody}
        /\ UNCHANGED <<backups, buildLock, edits, ops>>
        /\ promotionLock' = promotionLock
    BY <1>1 DEF Types, locks
  <2> QED BY <1>1, <1>2, <1>6, <2>1, <2>2, <2>3, PhaseStep DEF At, Phases, Moving, Locked
<1>7. CASE /\ from # Absent /\ Fault /\ Go(p, "restoring")
           /\ \E done \in SUBSET Paths :
                 Put(Src, [f \in Paths |-> IF f \in done THEN from[f] ELSE Read(Src)[f]])
  <2>1. PICK done \in SUBSET Paths :
           Put(Src, [f \in Paths |-> IF f \in done THEN from[f] ELSE Read(Src)[f]])
    BY <1>7
  <2>2. PICK t : t = [f \in Paths |-> IF f \in done THEN from[f] ELSE Read(Src)[f]]
    OBVIOUS
  <2>3. t \in Trees /\ \A f \in Paths : t[f] \in {from[f], Read(Src)[f]}
    <3>1. from \in Trees
      BY <1>4, <1>7 DEF MaybeTree
    <3> QED BY <1>4, <2>2, <3>1 DEF Trees
  <2>4. faults' \in 0 .. MaxFaults
    BY <1>1, <1>7, FaultStep
  <2> QED BY <1>1, <1>2, <1>3, <1>6, <1>7, <2>1, <2>2, <2>3, <2>4
<1>8. CASE /\ from = Absent /\ Go(p, "restoring") /\ UNCHANGED faults /\ Put(Src, Read(Src))
  <2>1. faults' \in 0 .. MaxFaults
    BY <1>1, <1>8 DEF Types
  <2> QED BY <1>1, <1>2, <1>4, <1>6, <1>8, <2>1
<1> QED BY <1>3, <1>5, <1>7, <1>8 DEF Apply

LEMMA RemoveSourceStep ==
    ASSUME Inv, NEW p \in Procs, RemoveSource(p)
    PROVE  /\ Proper(p) /\ At(p, "restoring") /\ proc'[p].at = "removed"
           /\ UNCHANGED <<litter, backups, record, locks, disturbed, counters>> /\ OnlySource
           /\ tree'[Src] = Absent /\ proc'[p].op = proc[p].op /\ SameMemory(p) /\ SameCall(p)
<1>1. /\ At(p, "restoring") /\ UNCHANGED <<litter, backups, record, locks, disturbed, counters>>
      /\ Types /\ Put(Src, Absent) /\ Go(p, "removed")
      /\ proc[p].op = "promote" => promotionLock = p
  BY DEF RemoveSource, Inv, Holds, At
<1>2. tree' \in [Dests -> MaybeTree] /\ tree'[Src] = Absent /\ OnlySource
  BY <1>1, SourcePut DEF MaybeTree
<1>3. LocksOf(p) /\ StayReadable
  BY <1>1 DEF LocksOf, StayReadable, Readable, locks
<1>4. /\ litter' \in [Dests -> SUBSET Trees]
      /\ record' \in [Areas -> {"none", "bare", "ready", "conflicted", "promoted"}]
      /\ areaLock' \in [Areas -> Procs \cup {Nobody}] /\ promotionLock' \in Procs \cup {Nobody}
      /\ faults' \in 0 .. MaxFaults
      /\ UNCHANGED <<backups, buildLock, edits, ops>> /\ promotionLock' = promotionLock
  BY <1>1 DEF Types, locks, counters
<1> QED BY <1>1, <1>2, <1>3, <1>4, PhaseStep DEF At, Phases, Moving, Locked

LEMMA CopyBackupStep ==
    ASSUME Inv, NEW p \in Procs, CopyBackup(p)
    PROVE  /\ Proper(p) /\ At(p, "removed") /\ proc'[p] = Idle
           /\ UNCHANGED <<litter, backups, record, disturbed, counters>> /\ OnlySource
           /\ tree'[Src] \in {tree[Src], proc[p].before} /\ (tree[Src] # Absent => UNCHANGED tree)
<1>1. /\ At(p, "removed") /\ UNCHANGED <<litter, backups, record, disturbed, counters>>
      /\ Types /\ Leave(p) /\ proc[p].before \in MaybeTree
  BY Fields DEF CopyBackup, Inv
<1>2. /\ tree' \in [Dests -> MaybeTree] /\ OnlySource /\ tree'[Src] \in {tree[Src], proc[p].before}
      /\ tree[Src] # Absent => UNCHANGED tree
  <2>1. CASE tree[Src] = Absent
    BY <1>1, <2>1, SourcePut DEF CopyBackup
  <2>2. CASE tree[Src] # Absent
    BY <1>1, <2>2 DEF CopyBackup, Types, OnlySource
  <2> QED BY <2>1, <2>2
<1>3. backups'[p] = <<>> /\ OthersBackups(p) /\ StayReadable
  BY <1>1 DEF Inv, Orderly, OthersBackups, StayReadable, Readable, At, Moving
<1> QED BY <1>1, <1>2, <1>3, EndStep DEF Types, counters

----------------------------------------------------------------------------
(* The steps of _replace_trees.                                            *)

LEMMA AppendDistinct ==
    ASSUME NEW S, NEW s \in Seq(S), NEW e \in S, Distinct(s), e[1] \notin Firsts(s)
    PROVE  Distinct(Append(s, e))
<1> DEFINE t == Append(s, e)
           n == Len(s)
<1>1. /\ n \in Nat /\ DOMAIN s = 1 .. n /\ DOMAIN t = 1 .. n + 1
      /\ t[n + 1] = e /\ \A i \in 1 .. n : t[i] = s[i]
  BY AppendProperties, LenProperties
<1> HIDE DEF t, n
<1>2. \A i \in 1 .. n + 1 : i \in 1 .. n \/ i = n + 1
  BY <1>1
<1>3. \A i \in 1 .. n : t[i][1] # e[1]
  BY <1>1 DEF Firsts
<1>4. SUFFICES ASSUME NEW i \in 1 .. n + 1, NEW j \in 1 .. n + 1, t[i][1] = t[j][1]
               PROVE  i = j
  BY <1>1 DEF Distinct, t
<1> QED BY <1>1, <1>2, <1>3, <1>4 DEF Distinct

LEMMA TailDistinct ==
    ASSUME NEW S, NEW s \in Seq(S), s # <<>>, Distinct(s)
    PROVE  Distinct(Tail(s)) /\ s[1][1] \notin Firsts(Tail(s))
<1>1. \A i \in DOMAIN Tail(s) : i + 1 \in DOMAIN s /\ Tail(s)[i] = s[i + 1] /\ i \in Nat /\ i > 0
  BY TailElements
<1>2. 1 \in DOMAIN s
  BY TailElements
<1>3. Distinct(Tail(s))
  BY <1>1 DEF Distinct
<1>4. ASSUME NEW i \in DOMAIN Tail(s), Tail(s)[i][1] = s[1][1] PROVE FALSE
  BY <1>1, <1>2, <1>4 DEF Distinct
<1> QED BY <1>3, <1>4 DEF Firsts

LEMMA FrontDistinct ==
    ASSUME NEW S, NEW s \in Seq(S), Len(s) > 0, Distinct(s)
    PROVE  /\ Distinct(SubSeq(s, 1, Len(s) - 1))
           /\ s[Len(s)][1] \notin Firsts(SubSeq(s, 1, Len(s) - 1))
<1> DEFINE n == Len(s)
           t == SubSeq(s, 1, n - 1)
<1>1. n \in Nat /\ n > 0 /\ DOMAIN s = 1 .. n
  BY LenProperties
<1>2. DOMAIN t = 1 .. n - 1 /\ \A i \in 1 .. n - 1 : t[i] = s[i]
  <2>1. t = [i \in 1 .. n - 1 |-> s[1 + i - 1]]
    BY <1>1, SubSeqProperties
  <2>2. \A i \in 1 .. n - 1 : s[1 + i - 1] = s[i] /\ i \in 1 .. n
    BY <1>1
  <2> QED BY <2>1, <2>2
<1> HIDE DEF t, n
<1>3. n \in 1 .. n /\ \A i \in 1 .. n - 1 : i \in 1 .. n /\ i # n
  BY <1>1
<1>4. Distinct(t)
  BY <1>1, <1>2, <1>3 DEF Distinct
<1>5. s[n][1] \notin Firsts(t)
  BY <1>1, <1>2, <1>3 DEF Distinct, Firsts
<1> QED BY <1>4, <1>5 DEF t, n

\* Steps within a call.
LEMMA MoveStep ==
    ASSUME Inv, NEW p \in Procs, proc[p].at \in Moving,
           NEW s \in Processes, proc' \in [Procs -> Processes], proc'[p] = s, Others(p),
           s.at \in Moving, s.op = proc[p].op, s.area = proc[p].area, s.call = proc[p].call,
           s.before = proc[p].before,
           tree' \in [Dests -> MaybeTree], litter' = litter,
           backups' \in [Procs -> Seq(Pairs)], OthersBackups(p),
           faults' \in 0 .. MaxFaults, UNCHANGED <<record, locks, edits, ops>>,
           Orderly(p)'
    PROVE  Proper(p)
<1>1. Types /\ Holds(p)
  BY DEF Inv
<1>2. Types' /\ LocksOf(p) /\ StayReadable
  BY <1>1 DEF Types, locks, LocksOf, StayReadable, Readable
<1>3. /\ areaLock[proc[p].area] = p /\ Readable(proc[p].area) /\ proc[p].area \in Areas
      /\ proc[p].op = "promote" => promotionLock = p
  BY LockedFacts DEF Locked, Moving
<1>4. Holds(p)' /\ Busy(p)'
  BY <1>1, <1>3 DEF Holds, Busy, At, Moving, Promoting, locks, Readable
<1> QED BY <1>2, <1>4 DEF Proper

MovingFrame == UNCHANGED <<litter, record, locks, disturbed, edits, ops>>

LEMMA MoveAwayStep ==
    ASSUME Inv, NEW p \in Procs, MoveAway(p)
    PROVE  /\ Proper(p) /\ At(p, "replacing") /\ MovingFrame /\ faults' = faults
           /\ proc'[p].at = "between" /\ proc'[p].op = proc[p].op /\ SameMemory(p) /\ SameCall(p)
           /\ proc[p].jobs # <<>>
           /\ Target(p) \in Pending(p) /\ Target(p) \notin Installed(p) /\ Target(p) \notin Saved(p)
           /\ Target(p) \in Dests /\ tree[Target(p)] \in Trees /\ tree'[Target(p)] = Absent
           /\ \A d \in Dests : d # Target(p) => tree'[d] = tree[d]
           /\ Elements(backups'[p]) = Elements(backups[p]) \cup {<<Target(p), tree[Target(p)]>>}
           /\ Saved(p)' = Saved(p) \cup {Target(p)}
<1>1. /\ At(p, "replacing") /\ proc[p].jobs # <<>> /\ tree[Target(p)] # Absent
      /\ Put(Target(p), Absent) /\ Go(p, "between")
      /\ backups' = [backups EXCEPT ![p] = Append(backups[p], <<Target(p), tree[Target(p)]>>)]
      /\ UNCHANGED <<litter, record, locks, disturbed, counters>>
  BY DEF MoveAway
<1>2. Types /\ Orderly(p) /\ backups[p] \in Seq(Pairs) /\ proc[p].jobs \in Seq(Pairs)
  BY Fields DEF Inv
<1>3. proc[p].jobs[1] \in Pairs /\ Target(p) \in Pending(p) /\ Target(p) \in Dests
  BY <1>1, <1>2, TailElements DEF Target, Pending, Pairs
<1>4. /\ Target(p) \notin Installed(p) /\ Target(p) \notin Saved(p) /\ Target(p) \in Own(p)
  BY <1>1, <1>2, <1>3 DEF Orderly, At, Moving
<1>5. tree[Target(p)] \in Trees
  BY <1>1, <1>2, <1>3, ReadsAreTrees
<1>6. PICK e : e = <<Target(p), tree[Target(p)]>>
  OBVIOUS
<1>7. e \in Pairs /\ e[1] = Target(p)
  BY <1>3, <1>5, <1>6 DEF Pairs
<1>8. backups'[p] = Append(backups[p], e) /\ OthersBackups(p)
  BY <1>1, <1>2, <1>6 DEF Types, OthersBackups
<1>9. /\ backups'[p] \in Seq(Pairs) /\ Elements(backups'[p]) = Elements(backups[p]) \cup {e}
      /\ Saved(p)' = Saved(p) \cup {Target(p)}
  BY <1>2, <1>7, <1>8, AppendElements DEF Saved
<1>10. Distinct(backups'[p])
  <2>1. Distinct(backups[p]) /\ e[1] \notin Firsts(backups[p])
    BY <1>1, <1>2, <1>4, <1>7 DEF Orderly, Saved, At, Moving
  <2> QED BY <1>2, <1>7, <1>8, <2>1, AppendDistinct
<1>11. /\ tree' \in [Dests -> MaybeTree] /\ tree'[Target(p)] = Absent
       /\ \A d \in Dests : d # Target(p) => tree'[d] = tree[d]
  BY <1>1, <1>2, <1>3, PutStep DEF MaybeTree
<1>12. /\ proc' \in [Procs -> Processes] /\ Others(p)
       /\ proc'[p].at = "between" /\ proc'[p].op = proc[p].op /\ SameMemory(p) /\ SameCall(p)
  BY <1>1, <1>2, GoStep DEF Phases
<1>13. Pending(p)' = Pending(p) /\ Installed(p)' = Installed(p) /\ Own(p)' = Own(p)
       /\ Target(p)' = Target(p)
  BY <1>12 DEF Pending, Installed, Own, SameCall, SameMemory, Target
<1>14. Orderly(p)'
  BY <1>1, <1>2, <1>4, <1>9, <1>10, <1>12, <1>13 DEF Orderly, At, Moving, SameCall
<1>15. backups' \in [Procs -> Seq(Pairs)]
  BY <1>1, <1>2, <1>8, <1>9 DEF Types
<1>16. proc'[p] \in Processes
  BY <1>12
<1>17. Proper(p)
  BY <1>1, <1>2, <1>8, <1>11, <1>12, <1>14, <1>15, <1>16, MoveStep
     DEF At, Moving, SameCall, SameMemory, counters, Types
<1> QED BY <1>1, <1>3, <1>4, <1>5, <1>6, <1>9, <1>11, <1>12, <1>17 DEF MovingFrame, counters

LEMMA MoveInStep ==
    ASSUME Inv, NEW p \in Procs, MoveIn(p)
    PROVE  /\ Proper(p) /\ proc[p].at \in {"replacing", "between"} /\ MovingFrame /\ faults' = faults
           /\ proc'[p].at = "replacing" /\ proc'[p].op = proc[p].op /\ SameMemory(p)
           /\ proc'[p].call = proc[p].call /\ proc'[p].original = proc[p].original
           /\ proc[p].jobs # <<>> /\ proc[p].jobs[1] \in Pairs
           /\ Target(p) \in Pending(p) /\ Target(p) \in Dests
           /\ tree[Target(p)] = Absent /\ tree'[Target(p)] = proc[p].jobs[1][2]
           /\ \A d \in Dests : d # Target(p) => tree'[d] = tree[d]
           /\ Elements(proc[p].jobs) = Elements(proc'[p].jobs) \cup {proc[p].jobs[1]}
           /\ proc'[p].jobs = Tail(proc[p].jobs)
           /\ Pending(p) = Pending(p)' \cup {Target(p)} /\ Target(p) \notin Pending(p)'
           /\ Installed(p)' = Installed(p) \cup {Target(p)}
           /\ UNCHANGED backups /\ Saved(p)' = Saved(p)
<1>1. /\ proc[p].at \in {"replacing", "between"} /\ proc[p].jobs # <<>> /\ tree[Target(p)] = Absent
      /\ Put(Target(p), proc[p].jobs[1][2])
      /\ Become(p, [proc[p] EXCEPT !.at = "replacing", !.jobs = Tail(proc[p].jobs),
                                 !.installed = Append(proc[p].installed, Target(p))])
      /\ UNCHANGED <<litter, backups, record, locks, disturbed, counters>>
  BY DEF MoveIn, At
<1>2. /\ Types /\ Orderly(p) /\ proc[p].jobs \in Seq(Pairs) /\ proc[p].installed \in Seq(Dests)
      /\ proc[p] \in Processes
  BY Fields DEF Inv, Types
<1>3. /\ proc[p].jobs[1] \in Pairs /\ Tail(proc[p].jobs) \in Seq(Pairs)
      /\ Elements(proc[p].jobs) = {proc[p].jobs[1]} \cup Elements(Tail(proc[p].jobs))
      /\ Firsts(proc[p].jobs) = {Target(p)} \cup Firsts(Tail(proc[p].jobs))
  BY <1>1, <1>2, TailElements DEF Target
<1>4. Target(p) \in Dests /\ Target(p) \in Pending(p) /\ proc[p].jobs[1][2] \in Trees
  BY <1>3 DEF Pairs, Target, Pending
<1>5. /\ Append(proc[p].installed, Target(p)) \in Seq(Dests)
      /\ Elements(Append(proc[p].installed, Target(p))) = Installed(p) \cup {Target(p)}
  BY <1>2, <1>4, AppendElements DEF Installed
<1>6. Distinct(proc[p].jobs)
  BY <1>1, <1>2 DEF Orderly
<1>7. Distinct(Tail(proc[p].jobs)) /\ Target(p) \notin Firsts(Tail(proc[p].jobs))
  BY <1>1, <1>2, <1>6, TailDistinct DEF Target
<1>8. PICK s : s = [proc[p] EXCEPT !.at = "replacing", !.jobs = Tail(proc[p].jobs),
                                 !.installed = Append(proc[p].installed, Target(p))]
  OBVIOUS
<1>9. /\ s \in Processes /\ s.at = "replacing" /\ s.op = proc[p].op /\ s.area = proc[p].area
      /\ s.base = proc[p].base /\ s.overlay = proc[p].overlay /\ s.current = proc[p].current
      /\ s.since = proc[p].since /\ s.before = proc[p].before /\ s.call = proc[p].call
      /\ s.original = proc[p].original
      /\ s.jobs = Tail(proc[p].jobs) /\ s.installed = Append(proc[p].installed, Target(p))
  BY <1>2, <1>3, <1>5, <1>8 DEF Processes, Phases
<1>10. proc' \in [Procs -> Processes] /\ proc'[p] = s /\ Others(p)
  BY <1>1, <1>2, <1>8, <1>9, BecomeStep
<1>11. /\ tree' \in [Dests -> MaybeTree] /\ tree'[Target(p)] = proc[p].jobs[1][2]
       /\ \A d \in Dests : d # Target(p) => tree'[d] = tree[d]
  BY <1>1, <1>2, <1>4, PutStep DEF MaybeTree
<1>12. /\ Pending(p)' = Firsts(Tail(proc[p].jobs)) /\ Installed(p)' = Installed(p) \cup {Target(p)}
       /\ Saved(p)' = Saved(p) /\ Own(p)' = Own(p) /\ backups'[p] = backups[p]
  BY <1>1, <1>5, <1>9, <1>10 DEF Pending, Installed, Saved, Own
<1>13. Pending(p) = {Target(p)} \cup Firsts(Tail(proc[p].jobs))
  BY <1>3 DEF Pending
<1>14. Orderly(p)'
  <2>1. /\ proc[p].call # "none" /\ Pending(p) \cup Installed(p) \cup Saved(p) \subseteq Own(p)
        /\ Distinct(backups[p]) /\ Pending(p) \cap Installed(p) = {}
        /\ Saved(p) \subseteq Installed(p) \cup {Target(p)}
    BY <1>1, <1>2 DEF Orderly, At, Moving
  <2>2. proc'[p].at = "replacing" /\ proc'[p].call = proc[p].call /\ Distinct(proc'[p].jobs)
    BY <1>7, <1>9, <1>10
  <2>3. /\ Pending(p)' \cup Installed(p)' \cup Saved(p)' \subseteq Own(p)'
        /\ Saved(p)' \subseteq Installed(p)' /\ Pending(p)' \cap Installed(p)' = {}
    BY <1>4, <1>7, <1>12, <1>13, <2>1
  <2> QED BY <1>12, <2>1, <2>2, <2>3 DEF Orderly, At, Moving
<1>15. Proper(p)
  BY <1>1, <1>2, <1>9, <1>10, <1>11, <1>14, MoveStep DEF Moving, counters, Types, OthersBackups
<1> QED BY <1>1, <1>3, <1>4, <1>7, <1>9, <1>10, <1>11, <1>12, <1>13, <1>15
        DEF MovingFrame, counters, SameMemory

LEMMA RenameFailsStep ==
    ASSUME Inv, NEW p \in Procs, RenameFails(p)
    PROVE  /\ Proper(p) /\ proc[p].at \in {"replacing", "between"} /\ MovingFrame
           /\ UNCHANGED <<tree, backups>> /\ proc[p].jobs # <<>>
           /\ proc'[p].at = "undoing" /\ proc'[p].op = proc[p].op /\ SameMemory(p) /\ SameCall(p)
<1>1. /\ proc[p].at \in {"replacing", "between"} /\ Go(p, "undoing") /\ proc[p].jobs # <<>>
      /\ UNCHANGED <<tree, litter, backups, record, locks, disturbed, edits, ops>>
  BY DEF RenameFails, At
<1>2. Types /\ Orderly(p) /\ faults' \in 0 .. MaxFaults
  <2>1. Types /\ Orderly(p) /\ (Fault \/ UNCHANGED faults)
    BY DEF RenameFails, Inv
  <2> QED BY <2>1, FaultStep DEF Types
<1>3. /\ proc' \in [Procs -> Processes] /\ Others(p)
      /\ proc'[p].at = "undoing" /\ proc'[p].op = proc[p].op /\ SameMemory(p) /\ SameCall(p)
  BY <1>1, <1>2, GoStep DEF Phases
<1>4. Pending(p)' = Pending(p) /\ Installed(p)' = Installed(p) /\ Own(p)' = Own(p)
      /\ Saved(p)' = Saved(p) /\ backups'[p] = backups[p]
  BY <1>1, <1>3 DEF Pending, Installed, Own, SameCall, SameMemory, Saved
<1>5. Orderly(p)'
  BY <1>1, <1>2, <1>3, <1>4 DEF Orderly, At, Moving, SameCall
<1>6. Proper(p)
  BY <1>1, <1>2, <1>3, <1>5, MoveStep DEF Moving, SameCall, SameMemory, Types, OthersBackups
<1> QED BY <1>1, <1>3, <1>6 DEF MovingFrame

LEMMA RemoveInstalledStep ==
    ASSUME Inv, NEW p \in Procs, RemoveInstalled(p)
    PROVE  /\ Proper(p) /\ At(p, "undoing") /\ MovingFrame /\ faults' = faults
           /\ proc'[p].at = "undoing" /\ proc'[p].op = proc[p].op /\ SameMemory(p)
           /\ proc'[p].call = proc[p].call /\ proc'[p].original = proc[p].original
           /\ proc'[p].jobs = proc[p].jobs /\ UNCHANGED backups /\ Saved(p)' = Saved(p)
           /\ \E d \in Dests : /\ d \in Own(p) /\ Installed(p) = {d} \cup Installed(p)'
                               /\ tree'[d] = Absent
                               /\ \A e \in Dests : e # d => tree'[e] = tree[e]
<1>1. PICK n : n = Len(proc[p].installed)
  OBVIOUS
<1>2. /\ At(p, "undoing") /\ n > 0 /\ Put(proc[p].installed[n], Absent)
      /\ Become(p, [proc[p] EXCEPT !.installed = SubSeq(proc[p].installed, 1, n - 1)])
      /\ UNCHANGED <<litter, backups, record, locks, disturbed, counters>>
  BY <1>1 DEF RemoveInstalled
<1>3. /\ Types /\ Orderly(p) /\ proc[p].installed \in Seq(Dests) /\ proc[p] \in Processes
  BY Fields DEF Inv, Types
<1>4. /\ SubSeq(proc[p].installed, 1, n - 1) \in Seq(Dests) /\ proc[p].installed[n] \in Dests
      /\ Installed(p) = {proc[p].installed[n]} \cup Elements(SubSeq(proc[p].installed, 1, n - 1))
  BY <1>1, <1>2, <1>3, FrontElements DEF Installed
<1>5. PICK d : d = proc[p].installed[n]
  OBVIOUS
<1>6. PICK s : s = [proc[p] EXCEPT !.installed = SubSeq(proc[p].installed, 1, n - 1)]
  OBVIOUS
<1>7. /\ s \in Processes /\ s.at = "undoing" /\ s.op = proc[p].op /\ s.area = proc[p].area
      /\ s.base = proc[p].base /\ s.overlay = proc[p].overlay /\ s.current = proc[p].current
      /\ s.since = proc[p].since /\ s.before = proc[p].before /\ s.call = proc[p].call
      /\ s.original = proc[p].original /\ s.jobs = proc[p].jobs
      /\ s.installed = SubSeq(proc[p].installed, 1, n - 1)
  BY <1>2, <1>3, <1>4, <1>6 DEF Processes, At
<1>8. proc' \in [Procs -> Processes] /\ proc'[p] = s /\ Others(p)
  BY <1>2, <1>3, <1>6, <1>7, BecomeStep
<1>9. /\ tree' \in [Dests -> MaybeTree] /\ tree'[d] = Absent
      /\ \A e \in Dests : e # d => tree'[e] = tree[e]
  BY <1>2, <1>3, <1>4, <1>5, PutStep DEF MaybeTree
<1>10. /\ Pending(p)' = Pending(p) /\ Installed(p) = {d} \cup Installed(p)'
       /\ Saved(p)' = Saved(p) /\ Own(p)' = Own(p) /\ backups'[p] = backups[p]
  BY <1>2, <1>4, <1>5, <1>7, <1>8 DEF Pending, Installed, Saved, Own
<1>11. Orderly(p)'
  BY <1>2, <1>3, <1>7, <1>8, <1>10 DEF Orderly, At, Moving
<1>12. Proper(p)
  BY <1>2, <1>3, <1>7, <1>8, <1>9, <1>11, MoveStep DEF At, Moving, counters, Types, OthersBackups
<1>13. d \in Own(p) /\ d \in Dests
  BY <1>2, <1>3, <1>4, <1>5, <1>10 DEF Orderly, At, Moving
<1> QED BY <1>2, <1>7, <1>8, <1>9, <1>10, <1>12, <1>13 DEF MovingFrame, counters, SameMemory

LEMMA RestoreBackupStep ==
    ASSUME Inv, NEW p \in Procs, RestoreBackup(p)
    PROVE  /\ Proper(p) /\ At(p, "undoing") /\ MovingFrame /\ faults' = faults /\ UNCHANGED proc
           /\ Installed(p) = {}
           /\ \E e \in Pairs : /\ e[1] \in Own(p) /\ tree[e[1]] = Absent /\ tree'[e[1]] = e[2]
                               /\ \A d \in Dests : d # e[1] => tree'[d] = tree[d]
                               /\ Elements(backups[p]) = {e} \cup Elements(backups'[p])
                               /\ Saved(p) = {e[1]} \cup Saved(p)' /\ e[1] \notin Saved(p)'
<1>1. PICK n : n = Len(backups[p])
  OBVIOUS
<1>2. /\ At(p, "undoing") /\ proc[p].installed = <<>> /\ n > 0
      /\ tree[backups[p][n][1]] = Absent /\ Put(backups[p][n][1], backups[p][n][2])
      /\ backups' = [backups EXCEPT ![p] = SubSeq(backups[p], 1, n - 1)]
      /\ UNCHANGED <<litter, record, locks, proc, disturbed, counters>>
  BY <1>1 DEF RestoreBackup
<1>3. Types /\ Orderly(p) /\ backups[p] \in Seq(Pairs) /\ proc[p] \in Processes
  BY Fields DEF Inv, Types
<1>4. PICK e : e = backups[p][n]
  OBVIOUS
<1>5. /\ SubSeq(backups[p], 1, n - 1) \in Seq(Pairs) /\ e \in Pairs
      /\ Elements(backups[p]) = {e} \cup Elements(SubSeq(backups[p], 1, n - 1))
      /\ Firsts(backups[p]) = {e[1]} \cup Firsts(SubSeq(backups[p], 1, n - 1))
  BY <1>1, <1>2, <1>3, <1>4, FrontElements
<1>6. /\ Distinct(SubSeq(backups[p], 1, n - 1))
      /\ e[1] \notin Firsts(SubSeq(backups[p], 1, n - 1))
  <2>1. Distinct(backups[p])
    BY <1>2, <1>3 DEF Orderly, At, Moving
  <2> QED BY <1>1, <1>2, <1>3, <1>4, <2>1, FrontDistinct
<1>7. backups'[p] = SubSeq(backups[p], 1, n - 1) /\ OthersBackups(p)
      /\ backups' \in [Procs -> Seq(Pairs)]
  BY <1>2, <1>3, <1>5 DEF Types, OthersBackups
<1>8. e[1] \in Dests /\ e[2] \in Trees
  BY <1>5 DEF Pairs
<1>9. /\ tree' \in [Dests -> MaybeTree] /\ tree'[e[1]] = e[2]
      /\ \A d \in Dests : d # e[1] => tree'[d] = tree[d]
  BY <1>2, <1>3, <1>4, <1>8, PutStep DEF MaybeTree
<1>10. /\ Pending(p)' = Pending(p) /\ Installed(p)' = Installed(p)
       /\ Saved(p) = {e[1]} \cup Saved(p)' /\ Own(p)' = Own(p) /\ e[1] \notin Saved(p)'
  BY <1>2, <1>5, <1>6, <1>7 DEF Pending, Installed, Saved, Own
<1>11. Orderly(p)'
  BY <1>2, <1>3, <1>6, <1>7, <1>10 DEF Orderly, At, Moving
<1>12. proc' \in [Procs -> Processes] /\ Others(p)
  BY <1>2, <1>3 DEF Types, Others
<1>13. Proper(p)
  BY <1>2, <1>3, <1>7, <1>9, <1>11, <1>12, MoveStep DEF At, Moving, counters, Types
<1>14. Installed(p) = {} /\ e[1] \in Own(p)
  BY <1>2, <1>3, <1>10, EmptyElements DEF Installed, Orderly, At, Moving
<1> QED BY <1>2, <1>4, <1>5, <1>7, <1>9, <1>10, <1>13, <1>14 DEF MovingFrame, counters

\* Where a call that has returned or raised goes on.
Exits == {"committing", "failing", "sourced", "recording", "reverting", "handling"}

LEMMA ExitsAreKnown ==
    ASSUME NEW call \in Calls \ {"none"}
    PROVE  /\ Returns[call] \in Exits /\ Raises[call] \in Exits
           /\ Returns[call] \in {"sourced", "recording", "handling"} => call \in {"source", "base"}
           /\ Raises[call] \in {"sourced", "recording", "handling"} => call \in {"source", "base"}
           /\ Raises[call] = "committing" => FALSE
           /\ Raises[call] = "sourced" => FALSE
           /\ Returns[call] = "sourced" => call = "source"
           /\ Returns[call] = "committing" => call = "rebase"
           /\ Returns[call] # "reverting"
           /\ Raises[call] = "reverting" => call = "rebase"
           /\ call \in {"rebase", "rebaseUndo"} <=>
                 Returns[call] = "committing" \/ (Returns[call] = "failing" /\ call = "rebaseUndo")
BY DEF Calls, Returns, Raises, Exits

LEMMA ExitStep ==
    ASSUME Inv, NEW p \in Procs, proc[p].at \in Moving, NEW at \in Exits, Go(p, at),
           at \in {"sourced", "recording", "handling"} => proc[p].call \in {"source", "base"},
           backups'[p] = <<>>, OthersBackups(p), backups' \in [Procs -> Seq(Pairs)],
           litter' \in [Dests -> SUBSET Trees],
           UNCHANGED <<tree, record, locks, disturbed, counters>>
    PROVE  /\ Proper(p) /\ proc'[p].at = at /\ proc'[p].op = proc[p].op
           /\ SameMemory(p) /\ SameCall(p)
<1>1. Types /\ Holds(p) /\ at \in Phases \ Moving /\ at # "idle"
  BY DEF Inv, Exits, Phases, Moving
<1>2. /\ proc' \in [Procs -> Processes] /\ Others(p)
      /\ proc'[p].at = at /\ proc'[p].op = proc[p].op /\ SameMemory(p) /\ SameCall(p)
  BY <1>1, GoStep
<1>3. Types' /\ LocksOf(p) /\ StayReadable
  BY <1>1, <1>2 DEF Types, locks, counters, LocksOf, StayReadable, Readable
<1>4. /\ areaLock[proc[p].area] = p /\ Readable(proc[p].area) /\ proc[p].area \in Areas
      /\ proc[p].op = "promote" => promotionLock = p
      /\ at \in {"sourced", "recording", "handling"}
            => proc[p].op = "promote" /\ proc[p].before # Absent
  BY LockedFacts DEF Locked, Moving, Inv, Holds, Promoting
<1>5. Holds(p)' /\ Busy(p)'
  BY <1>1, <1>2, <1>4 DEF Holds, Busy, At, Promoting, locks, Readable, SameMemory, Exits
<1>6. Orderly(p)'
  BY <1>1, <1>2, RestingStep
<1> QED BY <1>2, <1>3, <1>5, <1>6 DEF Proper

LEMMA LitteredType ==
    ASSUME Types, NEW p \in Procs
    PROVE  /\ Littered(p) \in [Dests -> SUBSET Trees]
           /\ \A d \in Dests : litter[d] \subseteq Littered(p)[d]
                                  /\ (d \in Saved(p) => Littered(p)[d] # {})
<1>1. backups[p] \in Seq(Pairs)
  BY Fields
<1>2. \A i \in DOMAIN backups[p] : backups[p][i] \in Pairs
  BY <1>1, ElementOfSeq
<1>3. \A i \in DOMAIN backups[p] : backups[p][i][2] \in Trees
  BY <1>2 DEF Pairs
<1>4. \A d \in Dests : Littered(p)[d] = litter[d] \cup
          {backups[p][i][2] : i \in {j \in DOMAIN backups[p] : backups[p][j][1] = d}}
  BY DEF Littered
<1>5. ASSUME NEW d \in Dests
      PROVE  /\ Littered(p)[d] \subseteq Trees /\ litter[d] \subseteq Littered(p)[d]
             /\ d \in Saved(p) => Littered(p)[d] # {}
  <2>1. litter[d] \subseteq Trees
    BY DEF Types
  <2>2. /\ Littered(p)[d] \subseteq Trees /\ litter[d] \subseteq Littered(p)[d]
    BY <1>3, <1>4, <2>1
  <2>3. ASSUME NEW i \in DOMAIN backups[p], backups[p][i][1] = d PROVE Littered(p)[d] # {}
    BY <1>4, <2>3
  <2>4. d \in Saved(p) => \E i \in DOMAIN backups[p] : backups[p][i][1] = d
    BY DEF Saved, Firsts
  <2> QED BY <2>2, <2>3, <2>4
<1> QED BY <1>5 DEF Littered

LEMMA ForgetStep ==
    ASSUME Types, NEW p \in Procs, Forget(p)
    PROVE  backups'[p] = <<>> /\ OthersBackups(p) /\ backups' \in [Procs -> Seq(Pairs)]
BY EmptySeq DEF Types, Forget, OthersBackups

LEMMA RestoreFailsStep ==
    ASSUME Inv, NEW p \in Procs, RestoreFails(p)
    PROVE  /\ Proper(p) /\ At(p, "undoing") /\ litter' = Littered(p) /\ backups'[p] = <<>>
           /\ UNCHANGED <<tree, record, locks, disturbed, counters>>
           /\ proc[p].call # "none"
           /\ proc'[p].at = Raises[proc[p].call] /\ proc'[p].at \in Exits
           /\ proc'[p].op = proc[p].op /\ SameMemory(p) /\ SameCall(p)
           /\ Installed(p) = {} /\ \E d \in Saved(p) : tree[d] # Absent
<1>1. PICK n : n = Len(backups[p])
  OBVIOUS
<1>2. /\ At(p, "undoing") /\ proc[p].installed = <<>> /\ n > 0
      /\ tree[backups[p][n][1]] # Absent /\ litter' = Littered(p) /\ Forget(p)
      /\ Go(p, Raises[proc[p].call])
      /\ UNCHANGED <<tree, record, locks, disturbed, counters>>
  BY <1>1 DEF RestoreFails
<1>3. Types /\ Orderly(p) /\ backups[p] \in Seq(Pairs) /\ proc[p].call \in Calls \ {"none"}
  BY <1>2, Fields DEF Inv, Orderly, At, Moving
<1>4. Saved(p) = {backups[p][n][1]} \cup Firsts(SubSeq(backups[p], 1, n - 1))
  BY <1>1, <1>2, <1>3, FrontElements DEF Saved
<1>5. /\ Proper(p) /\ proc'[p].at = Raises[proc[p].call] /\ proc'[p].op = proc[p].op
      /\ SameMemory(p) /\ SameCall(p) /\ backups'[p] = <<>>
  BY <1>2, <1>3, LitteredType, ForgetStep, ExitsAreKnown, ExitStep DEF At, Moving
<1>6. Installed(p) = {}
  BY <1>2, EmptyElements DEF Installed
<1> QED BY <1>2, <1>3, <1>4, <1>5, <1>6, ExitsAreKnown

LEMMA RaiseStep ==
    ASSUME Inv, NEW p \in Procs, Raise(p)
    PROVE  /\ Proper(p) /\ At(p, "undoing")
           /\ UNCHANGED <<tree, litter, backups, record, locks, disturbed, counters>>
           /\ proc[p].call # "none"
           /\ proc'[p].at = Raises[proc[p].call] /\ proc'[p].at \in Exits
           /\ proc'[p].op = proc[p].op /\ SameMemory(p) /\ SameCall(p)
           /\ Installed(p) = {} /\ Saved(p) = {}
<1>1. /\ At(p, "undoing") /\ proc[p].installed = <<>> /\ backups[p] = <<>>
      /\ Go(p, Raises[proc[p].call])
      /\ UNCHANGED <<tree, litter, backups, record, locks, disturbed, counters>>
  BY DEF Raise, Undone
<1>2. Types /\ Orderly(p) /\ proc[p].call \in Calls \ {"none"}
  BY <1>1, Fields DEF Inv, Orderly, At, Moving
<1>3. backups'[p] = <<>> /\ OthersBackups(p) /\ backups' \in [Procs -> Seq(Pairs)]
      /\ litter' \in [Dests -> SUBSET Trees]
  BY <1>1, <1>2 DEF Types, OthersBackups
<1>4. /\ Proper(p) /\ proc'[p].at = Raises[proc[p].call] /\ proc'[p].op = proc[p].op
      /\ SameMemory(p) /\ SameCall(p)
  BY <1>1, <1>2, <1>3, ExitsAreKnown, ExitStep DEF At, Moving
<1> QED BY <1>1, <1>2, <1>4, ExitsAreKnown, EmptyElements DEF Installed, Saved

LEMMA DropBackupStep ==
    ASSUME Inv, NEW p \in Procs, DropBackup(p)
    PROVE  /\ Proper(p) /\ At(p, "replacing") /\ MovingFrame /\ faults' = faults
           /\ UNCHANGED <<tree, proc>> /\ proc[p].jobs = <<>>
           /\ Elements(backups'[p]) \subseteq Elements(backups[p]) /\ Saved(p)' \subseteq Saved(p)
<1>1. /\ At(p, "replacing") /\ proc[p].jobs = <<>> /\ backups[p] # <<>>
      /\ backups' = [backups EXCEPT ![p] = Tail(backups[p])]
      /\ UNCHANGED <<tree, litter, record, locks, proc, disturbed, counters>>
  BY DEF DropBackup
<1>2. Types /\ Orderly(p) /\ backups[p] \in Seq(Pairs) /\ proc[p] \in Processes
  BY Fields DEF Inv, Types
<1>3. /\ Tail(backups[p]) \in Seq(Pairs)
      /\ Elements(Tail(backups[p])) \subseteq Elements(backups[p])
      /\ Firsts(Tail(backups[p])) \subseteq Firsts(backups[p])
  BY <1>1, <1>2, TailElements
<1>4. Distinct(Tail(backups[p]))
  <2>1. Distinct(backups[p])
    BY <1>1, <1>2 DEF Orderly, At, Moving
  <2> QED BY <1>1, <1>2, <2>1, TailDistinct
<1>5. backups'[p] = Tail(backups[p]) /\ OthersBackups(p) /\ backups' \in [Procs -> Seq(Pairs)]
  BY <1>1, <1>2, <1>3 DEF Types, OthersBackups
<1>6. /\ Pending(p)' = Pending(p) /\ Installed(p)' = Installed(p)
      /\ Saved(p)' \subseteq Saved(p) /\ Own(p)' = Own(p)
  BY <1>1, <1>3, <1>5 DEF Pending, Installed, Saved, Own
<1>7. Orderly(p)'
  BY <1>1, <1>2, <1>4, <1>5, <1>6 DEF Orderly, At, Moving
<1>8. proc' \in [Procs -> Processes] /\ Others(p) /\ tree' \in [Dests -> MaybeTree]
  BY <1>1, <1>2 DEF Types, Others
<1>9. Proper(p)
  BY <1>1, <1>2, <1>5, <1>7, <1>8, MoveStep DEF At, Moving, counters, Types
<1> QED BY <1>1, <1>3, <1>5, <1>6, <1>9 DEF MovingFrame, counters

LEMMA ReplacedStep ==
    ASSUME Inv, NEW p \in Procs, Replaced(p)
    PROVE  /\ Proper(p) /\ At(p, "replacing")
           /\ UNCHANGED <<tree, litter, backups, record, locks, disturbed, counters>>
           /\ proc[p].call # "none" /\ proc[p].jobs = <<>> /\ Saved(p) = {}
           /\ proc'[p].at = Returns[proc[p].call] /\ proc'[p].at \in Exits
           /\ proc'[p].op = proc[p].op /\ SameMemory(p) /\ SameCall(p)
<1>1. /\ At(p, "replacing") /\ proc[p].jobs = <<>> /\ backups[p] = <<>>
      /\ Go(p, Returns[proc[p].call])
      /\ UNCHANGED <<tree, litter, backups, record, locks, disturbed, counters>>
  BY DEF Replaced
<1>2. Types /\ Orderly(p) /\ proc[p].call \in Calls \ {"none"}
  BY <1>1, Fields DEF Inv, Orderly, At, Moving
<1>3. backups'[p] = <<>> /\ OthersBackups(p) /\ backups' \in [Procs -> Seq(Pairs)]
      /\ litter' \in [Dests -> SUBSET Trees]
  BY <1>1, <1>2 DEF Types, OthersBackups
<1>4. /\ Proper(p) /\ proc'[p].at = Returns[proc[p].call] /\ proc'[p].op = proc[p].op
      /\ SameMemory(p) /\ SameCall(p)
  BY <1>1, <1>2, <1>3, ExitsAreKnown, ExitStep DEF At, Moving
<1> QED BY <1>1, <1>2, <1>4, ExitsAreKnown, EmptyElements DEF Saved

LEMMA KillStep ==
    ASSUME Inv, NEW p \in Procs, Kill(p)
    PROVE  /\ Proper(p) /\ proc'[p] = Idle /\ litter' = Littered(p)
           /\ UNCHANGED <<tree, record, edits, ops>> /\ disturbed' = disturbed \cup {"kill"}
<1>1. /\ Leave(p) /\ litter' = Littered(p) /\ Forget(p) /\ faults' \in 0 .. MaxFaults
      /\ UNCHANGED <<tree, record, edits, ops>> /\ disturbed' = disturbed \cup {"kill"}
  BY FaultStep DEF Kill, Inv
<1>2. backups'[p] = <<>> /\ OthersBackups(p) /\ backups' \in [Procs -> Seq(Pairs)]
      /\ litter' \in [Dests -> SUBSET Trees]
  BY <1>1, LitteredType, ForgetStep DEF Inv
<1> QED BY <1>1, <1>2, EndStep DEF Inv, Types, StayReadable, Readable

LEMMA EditedTrees ==
    ASSUME NEW e \in Edited
    PROVE  /\ e[1] \in Dests /\ e[2] \in Paths
           /\ e[1] = Src \/ \E a \in Areas : e[1] = Overlay(a)
<1>1. e[2] \in Paths /\ (e[1] = Src \/ \E a \in Areas : e[1] = Overlay(a))
  BY EditsAreGiven
<1> QED BY <1>1, DestinationsAreGiven

LEMMA EditStep ==
    ASSUME Inv, NEW e \in Edited, Edit(e[1], e[2])
    PROVE  /\ Inv' /\ UNCHANGED <<litter, backups, record, locks, proc, disturbed, ops, faults>>
           /\ e[1] \in Dests /\ tree[e[1]] # Absent /\ edits' = edits + 1
           /\ tree'[e[1]] = [tree[e[1]] EXCEPT ![e[2]] = Newest + 1] /\ tree'[e[1]] \in Trees
           /\ \A d \in Dests : d # e[1] => tree'[d] = tree[d]
<1>1. /\ edits < MaxEdits /\ edits' = edits + 1 /\ tree[e[1]] # Absent
      /\ Put(e[1], [tree[e[1]] EXCEPT ![e[2]] = Newest + 1])
      /\ UNCHANGED <<litter, backups, record, locks, proc, disturbed, ops, faults>>
  BY DEF Edit
<1>2. Types /\ e[1] \in Dests /\ e[2] \in Paths
  BY EditedTrees DEF Inv
<1>3. tree[e[1]] \in Trees /\ Newest + 1 \in Contents /\ edits' \in 0 .. MaxEdits
  <2>1. edits \in Nat /\ edits < MaxEdits /\ Given \in Nat /\ MaxEdits \in Nat
    BY <1>1, <1>2, BoundsAreNaturals, NumberedContents DEF Types
  <2>2. Newest + 1 \in Given + 1 .. Given + MaxEdits
    BY <2>1 DEF Newest
  <2> QED BY <1>1, <1>2, <2>1, <2>2, ReadsAreTrees, NumberedContents
<1>4. [tree[e[1]] EXCEPT ![e[2]] = Newest + 1] \in Trees
  BY <1>2, <1>3 DEF Trees
<1>5. /\ tree' \in [Dests -> MaybeTree]
      /\ tree'[e[1]] = [tree[e[1]] EXCEPT ![e[2]] = Newest + 1]
      /\ \A d \in Dests : d # e[1] => tree'[d] = tree[d]
  BY <1>1, <1>2, <1>4, PutStep DEF MaybeTree
<1>6. \A p \in Procs : Proper(p)
  BY <1>1, <1>3, <1>5, TreeStep
<1>7. Inv'
  <2>1. CASE Procs = {}
    BY <1>1, <1>2, <1>3, <1>5, <2>1 DEF Inv, Types, locks
  <2>2. CASE Procs # {}
    BY <1>6, <2>2, ProperStep
  <2> QED BY <2>1, <2>2
<1> QED BY <1>1, <1>2, <1>4, <1>5, <1>7

----------------------------------------------------------------------------
(* The invariant about types, locks and calls.                             *)

LEMMA InitInv == Init => Inv
<1> SUFFICES ASSUME Init PROVE Inv
  OBVIOUS
<1>1. InitialSource \in Trees /\ Given \in Nat
  BY TreesAreGiven, NumberedContents
<1>2. tree \in [Dests -> MaybeTree]
  BY <1>1 DEF Init, MaybeTree
<1>3. backups \in [Procs -> Seq(Pairs)] /\ proc \in [Procs -> Processes]
  BY EmptySeq, IdleFields DEF Init
<1>4. Types
  BY <1>2, <1>3, BoundsAreNaturals DEF Init, Types
<1>5. ASSUME NEW p \in Procs PROVE Busy(p) /\ Holds(p) /\ Orderly(p)
  BY NobodyIsNoProcess, IdleFields
     DEF Init, Busy, Holds, Orderly, At, Locked, Moving, Promoting
<1> QED BY <1>4, <1>5 DEF Inv

LEMMA WorksStep ==
    ASSUME Inv, NEW p \in Procs, Works(p)
    PROVE  Proper(p)
<1>1. CASE ReplaceTrees(p)
  BY <1>1, MoveAwayStep, MoveInStep, RenameFailsStep, RemoveInstalledStep, RestoreBackupStep,
     RestoreFailsStep, RaiseStep, DropBackupStep, ReplacedStep DEF ReplaceTrees
<1>2. CASE RebaseLocked(p) \/ CallFails(p) \/ Finish(p)
  BY <1>2, ReadTreesStep, ReplacePairStep, CommitStep, RevertStep, CallFailsStep, FinishStep
     DEF RebaseLocked
<1>3. CASE PromoteTrees(p)
  BY <1>3, LockPromotionStep, ReplaceSourceStep, ReplaceBaseStep, HandleStep, RecordPromotionStep
     DEF PromoteTrees
<1>4. CASE CopyTree(p) \/ ImportTree(p) \/ WriteRecord(p)
  BY <1>4, CopyTreeStep, ImportTreeStep, WriteRecordStep
<1>5. CASE IntegrateTrees(p)
  BY <1>5, LockAreaStep, ReconciledStep, BackUpStep, ApplyStep, NotAcceptedStep, RemoveSourceStep,
     CopyBackupStep DEF IntegrateTrees
<1> QED BY <1>1, <1>2, <1>3, <1>4, <1>5 DEF Works

LEMMA InvStep == Inv /\ [Next]_vars => Inv'
<1> SUFFICES ASSUME Inv, [Next]_vars PROVE Inv'
  OBVIOUS
<1>1. CASE UNCHANGED vars
  <2>1. Types'
    BY <1>1 DEF Inv, Types, vars, locks, counters
  <2>2. ASSUME NEW p \in Procs PROVE Busy(p)' /\ Holds(p)' /\ Orderly(p)'
    <3>1. UNCHANGED <<record, areaLock, promotionLock, buildLock, proc, backups>>
      BY <1>1 DEF vars, locks
    <3>2. Busy(p) /\ Holds(p) /\ Orderly(p)
      BY DEF Inv
    <3>3. Busy(p)'
      BY <3>1, <3>2 DEF Busy, At
    <3>4. Holds(p)'
      BY <3>1, <3>2 DEF Holds, At, Readable, Promoting
    <3>5. Orderly(p)'
      BY <3>1, <3>2 DEF Orderly, At, Target, Pending, Installed, Saved, Own
    <3> QED BY <3>3, <3>4, <3>5
  <2> QED BY <2>1, <2>2 DEF Inv
<1>2. CASE \E p \in Procs, a \in Areas : \/ Rebase(p, a) \/ Promote(p, a) \/ Integrate(p, a)
                                         \/ Create(p, a) \/ Migrate(p, a)
  BY <1>2, StartSteps, ProperStep
<1>3. CASE \E p \in Procs : Works(p) \/ Kill(p)
  BY <1>3, WorksStep, KillStep, ProperStep
<1>4. CASE \E e \in Edited : Edit(e[1], e[2])
  BY <1>4, EditStep
<1> QED BY <1>1, <1>2, <1>3, <1>4 DEF Next

LEMMA InvHolds == ReplacementSpec => []Inv
BY InitInv, InvStep, PTL DEF ReplacementSpec

\* Types, for any number of areas, processes and steps; a lock is held by a
\* process that is at work, so no step leaves one behind (file_lock in staging.py
\* and the build lock of v3/staging.py).
THEOREM TypesAreRight == ReplacementSpec => []TypeOK
<1>1. Inv => TypeOK
  <2> SUFFICES ASSUME Inv PROVE TypeOK
    OBVIOUS
  <2>1. Types /\ \A p \in Procs : Busy(p)
    BY DEF Inv
  <2>2. /\ tree \in [Dests -> MaybeTree] /\ litter \in [Dests -> SUBSET Trees]
        /\ backups \in [Procs -> Seq(Dests \X Trees)]
        /\ record \in [Areas -> {"none", "bare", "ready", "conflicted", "promoted"}]
        /\ edits \in 0 .. MaxEdits /\ ops \in 0 .. MaxOps /\ faults \in 0 .. MaxFaults
    BY <2>1 DEF Types, Pairs
  <2>3. ASSUME NEW p \in Procs
        PROVE  /\ proc[p].op \in Operations /\ proc[p].at \in Phases
               /\ {proc[p].base, proc[p].overlay, proc[p].current} \subseteq Trees
               /\ proc[p].before \in MaybeTree
    BY <2>1, Fields
  <2>4. ASSUME NEW holder \in {areaLock[a] : a \in Areas} \cup {promotionLock, buildLock}
        PROVE  holder = Nobody \/ (holder \in Procs /\ ~At(holder, "idle"))
    BY <2>1 DEF Types, Busy
  <2> QED BY <2>2, <2>3, <2>4 DEF TypeOK
<1> QED BY <1>1, InvHolds, PTL

----------------------------------------------------------------------------
(* No tree vanishes.                                                       *)

\* The call may still be undone.
Undoable(p) == proc[p].at \in Moving /\ (proc[p].jobs # <<>> \/ At(p, "undoing"))

\* A tree that a call has put in place is there, and can be taken away again.
Keeps(p) ==
    /\ proc[p].at \in {"replacing", "between"} =>
          \A d \in Installed(p) : tree[d] # Absent \/ litter[d] # {}
    /\ Undoable(p) => \A d \in Installed(p) : d \in Saved(p) \/ litter[d] # {}

\* An integration that has begun to write src/ has left a backup of it.
Integrated(p) ==
    (proc[p].at \in {"applying", "restoring", "removed"} \/ proc[p].op = "accept")
        => litter[Src] # {}

KeepInv ==
    /\ Inv /\ TreesSurvive
    /\ "no backup" \in disturbed \/ \A p \in Procs : Keeps(p) /\ Integrated(p)

LEMMA DisturbedGrows ==
    ASSUME NEW p \in Procs, Works(p) \/ Kill(p)
    PROVE  disturbed \subseteq disturbed'
<1>1. CASE ReplaceTrees(p)
  BY <1>1 DEF ReplaceTrees, MoveAway, MoveIn, RenameFails, RemoveInstalled, RestoreBackup,
              RestoreFails, Raise, DropBackup, Replaced
<1>2. CASE RebaseLocked(p) \/ CallFails(p) \/ Finish(p)
  BY <1>2 DEF RebaseLocked, ReadTrees, ReplacePair, Commit, Revert, CallFails, Finish
<1>3. CASE PromoteTrees(p)
  BY <1>3 DEF PromoteTrees, LockPromotion, ReplaceSource, ReplaceBase, Handle, RecordPromotion
<1>4. CASE CopyTree(p) \/ ImportTree(p) \/ WriteRecord(p)
  BY <1>4 DEF CopyTree, ImportTree, WriteRecord
<1>5. CASE LockArea(p) \/ Reconciled(p) \/ NotAccepted(p) \/ RemoveSource(p) \/ CopyBackup(p)
  BY <1>5 DEF LockArea, Reconciled, NotAccepted, RemoveSource, CopyBackup
<1>6. CASE BackUp(p) \/ Apply(p) \/ Kill(p)
  BY <1>6 DEF BackUp, Apply, Kill
<1> QED BY <1>1, <1>2, <1>3, <1>4, <1>5, <1>6 DEF Works, IntegrateTrees

LEMMA OwnFacts ==
    ASSUME Inv, NEW p \in Procs, proc[p].at \in Moving
    PROVE  /\ Own(p) \subseteq Dests
           /\ Pending(p) \cup Installed(p) \cup Saved(p) \subseteq Own(p)
<1>1. Own(p) \subseteq Dests
  BY LockedFacts, DestinationsAreGiven DEF Own, Locked, Moving
<1> QED BY <1>1 DEF Inv, Orderly

\* Two calls never share a destination: their processes hold its lock.
LEMMA OwnersAreAlone ==
    ASSUME Inv, NEW p \in Procs, NEW q \in Procs, p # q, proc[p].at \in Moving, proc[q].at \in Moving
    PROVE  Own(p) \cap Own(q) = {} /\ Own(p) \subseteq Dests
<1>1. /\ proc[p].area \in Areas /\ areaLock[proc[p].area] = p
      /\ proc[q].area \in Areas /\ areaLock[proc[q].area] = q
      /\ proc[p].op = "promote" => promotionLock = p
      /\ proc[q].op = "promote" => promotionLock = q
  BY LockedFacts DEF Locked, Moving
<1>2. /\ proc[p].call \in SourceCalls => proc[p].op = "promote"
      /\ proc[q].call \in SourceCalls => proc[q].op = "promote"
  BY DEF Inv, Holds, Promoting, SourceCalls
<1>3. proc[p].area # proc[q].area
  BY <1>1
<1>4. ~ (proc[p].call \in SourceCalls /\ proc[q].call \in SourceCalls)
  BY <1>1, <1>2
<1>5. /\ Src \in Dests /\ Base(proc[p].area) \in Dests /\ Overlay(proc[p].area) \in Dests
      /\ Base(proc[p].area) # Src /\ Overlay(proc[p].area) # Src
      /\ Base(proc[q].area) # Src /\ Overlay(proc[q].area) # Src
      /\ Base(proc[p].area) # Overlay(proc[q].area) /\ Base(proc[q].area) # Overlay(proc[p].area)
      /\ Base(proc[p].area) # Base(proc[q].area) /\ Overlay(proc[p].area) # Overlay(proc[q].area)
  BY <1>1, <1>3, DestinationsAreGiven
<1> QED BY <1>4, <1>5 DEF Own

\* An area becomes readable with its trees in place.
Opens == \A a \in Areas : (~ Readable(a) /\ Readable(a)')
                             => tree'[Base(a)] # Absent /\ tree'[Overlay(a)] # Absent

\* What keeps the trees in a step of a process.
Safe(p) ==
    /\ \A d \in Dests : litter[d] \subseteq litter'[d]
    /\ \A d \in Dests : tree'[d] # Absent \/ tree'[d] = tree[d] \/ litter'[d] # {}
                           \/ (proc[p].at \in Moving /\ d \in Own(p) /\ d \in Saved(p)')
    /\ \A d \in Saved(p) : d \in Saved(p)' \/ litter'[d] # {} \/ tree'[d] # Absent
    /\ Opens /\ Keeps(p)' /\ Integrated(p)'

LEMMA SavedElsewhere ==
    ASSUME Types
    PROVE  \A d \in Dests : Backed(d) <=> litter[d] # {} \/ \E p \in Procs : d \in Saved(p)
BY DEF Backed, Saved, Firsts

LEMMA SafeStep ==
    ASSUME KeepInv, NEW p \in Procs, Proper(p), disturbed \subseteq disturbed',
           "no backup" \notin disturbed' => Safe(p)
    PROVE  KeepInv'
<1>1. Inv /\ Inv'
  BY ProperStep DEF KeepInv
<1> SUFFICES ASSUME "no backup" \notin disturbed'
             PROVE  TreesSurvive' /\ \A q \in Procs : Keeps(q)' /\ Integrated(q)'
  BY <1>1 DEF KeepInv, TreesSurvive
<1>2. /\ TreesSurvive /\ "no backup" \notin disturbed /\ Safe(p)
      /\ \A q \in Procs : Keeps(q) /\ Integrated(q)
  BY DEF KeepInv
<1>3. ASSUME NEW q \in Procs, q # p
      PROVE  /\ proc'[q] = proc[q] /\ Saved(q)' = Saved(q) /\ Installed(q)' = Installed(q)
             /\ Own(q)' = Own(q) /\ (Saved(q) # {} => proc[q].at \in Moving)
             /\ proc[q].at \in Moving => Installed(q) \cup Saved(q) \subseteq Own(q)
             /\ proc[q].at \in Moving => Own(q) \subseteq Dests
  <2>1. proc'[q] = proc[q] /\ backups'[q] = backups[q]
    BY <1>3 DEF Proper, Others, OthersBackups
  <2>2. Saved(q) # {} => proc[q].at \in Moving
    BY EmptyElements DEF Inv, Orderly, Saved, KeepInv
  <2>3. proc[q].at \in Moving => Installed(q) \cup Saved(q) \subseteq Own(q)
    BY DEF Inv, Orderly, KeepInv
  <2>4. proc[q].at \in Moving => Own(q) \subseteq Dests
    BY <1>1, LockedFacts, DestinationsAreGiven DEF Own, Locked, Moving
  <2> QED BY <2>1, <2>2, <2>3, <2>4 DEF Saved, Installed, Own
<1>4. ASSUME NEW q \in Procs, q # p PROVE Keeps(q)' /\ Integrated(q)'
  <2>1. Integrated(q)'
    BY <1>2, <1>3, <1>4, DestinationsAreGiven DEF Integrated, Safe
  <2>2. ASSUME proc[q].at \in Moving, NEW d \in Own(q)
        PROVE  /\ litter[d] \subseteq litter'[d]
               /\ tree'[d] # Absent \/ tree'[d] = tree[d] \/ litter'[d] # {}
    <3>1. d \in Dests
      BY <1>3, <1>4, <2>2
    <3>2. ~ (proc[p].at \in Moving /\ d \in Own(p))
      BY <1>1, <1>4, <2>2, OwnersAreAlone
    <3> QED BY <1>2, <3>1, <3>2 DEF Safe
  <2>3. Keeps(q)'
    <3>1. Keeps(q) /\ proc'[q] = proc[q] /\ Saved(q)' = Saved(q) /\ Installed(q)' = Installed(q)
      BY <1>2, <1>3, <1>4
    <3>2. proc[q].at \in {"replacing", "between"} => \A d \in Installed(q) : tree'[d] # Absent \/ litter'[d] # {}
      BY <1>3, <1>4, <2>2, <3>1 DEF Keeps, Moving
    <3>3. Undoable(q) => \A d \in Installed(q) : d \in Saved(q) \/ litter'[d] # {}
      BY <1>3, <1>4, <2>2, <3>1 DEF Keeps, Undoable
    <3> QED BY <3>1, <3>2, <3>3 DEF Keeps, Undoable, At
  <2> QED BY <2>1, <2>3
<1>5. TreesSurvive'
  <2> SUFFICES ASSUME NEW d \in Dests, tree'[d] = Absent
               PROVE  Backed(d)' \/ \E a \in Areas : ~Readable(a)' /\ d \in {Base(a), Overlay(a)}
    BY DEF TreesSurvive, Dests, Src, Base, Overlay
  <2>1. Backed(d)' <=> litter'[d] # {} \/ \E q \in Procs : d \in Saved(q)'
    BY DEF Backed, Saved, Firsts
  <2>2. CASE tree[d] # Absent
    BY <1>2, <2>1, <2>2 DEF Safe
  <2>3. CASE tree[d] = Absent
    <3>1. CASE Backed(d)
      <4>1. CASE litter[d] # {}
        BY <1>2, <2>1, <4>1 DEF Safe
      <4>2. CASE d \in Saved(p)
        BY <1>2, <2>1, <4>2 DEF Safe
      <4>3. ASSUME NEW q \in Procs, q # p, d \in Saved(q) PROVE Backed(d)'
        BY <1>3, <2>1, <4>3
      <4>4. litter[d] # {} \/ \E q \in Procs : d \in Saved(q)
        BY <1>1, <3>1, SavedElsewhere DEF Inv
      <4> QED BY <4>1, <4>2, <4>3, <4>4
    <3>2. CASE \E a \in Areas : ~Readable(a) /\ d \in {Base(a), Overlay(a)}
      BY <1>2, <3>2 DEF Safe, Opens
    <3> QED BY <1>2, <2>3, <3>1, <3>2 DEF TreesSurvive
  <2> QED BY <2>2, <2>3
<1> QED BY <1>2, <1>4, <1>5 DEF Safe

\* Steps between two phases in which nothing is being replaced.
LEMMA RestSafe ==
    ASSUME KeepInv, NEW p \in Procs, proc[p].at \notin Moving, proc'[p].at \notin Moving,
           \A d \in Dests : litter[d] \subseteq litter'[d],
           \A d \in Dests : tree'[d] # Absent \/ tree'[d] = tree[d] \/ litter'[d] # {},
           Opens, Integrated(p)'
    PROVE  Safe(p)
<1>1. Saved(p) = {}
  BY EmptyElements DEF KeepInv, Inv, Orderly, Saved
<1>2. Keeps(p)'
  BY DEF Keeps, Undoable, Moving
<1> QED BY <1>1, <1>2 DEF Safe

\* Those that change no tree and litter nothing.
LEMMA StillSafe ==
    ASSUME KeepInv, "no backup" \notin disturbed, NEW p \in Procs,
           proc[p].at \notin Moving, proc'[p].at \notin Moving \cup {"applying"},
           UNCHANGED <<tree, litter>>, Opens,
           proc'[p].at \in {"restoring", "removed"} \/ proc'[p].op = "accept" => proc[p].op = "accept"
    PROVE  Safe(p)
<1>1. Integrated(p)
  BY DEF KeepInv
<1>2. Integrated(p)'
  BY <1>1 DEF Integrated
<1> QED BY <1>2, RestSafe

LEMMA CalledSafe ==
    ASSUME KeepInv, "no backup" \notin disturbed, NEW p \in Procs, proc[p].at \notin Moving,
           NEW call, NEW jobs, Called(p, call, jobs)
    PROVE  Safe(p)
<1>1. Saved(p) = {} /\ Integrated(p)
  BY EmptyElements DEF KeepInv, Inv, Orderly, Saved
<1>2. Installed(p)' = {}
  BY EmptyElements DEF Called, Installed
<1>3. Keeps(p)'
  BY <1>2 DEF Keeps
<1>4. Integrated(p)' /\ Opens
  BY <1>1 DEF Integrated, Called, Steady, Opens, Readable
<1> QED BY <1>1, <1>3, <1>4 DEF Safe, Called, Steady

LEMMA StartSafe ==
    ASSUME KeepInv, "no backup" \notin disturbed, NEW p \in Procs, NEW a \in Areas,
           Rebase(p, a) \/ Promote(p, a) \/ Integrate(p, a) \/ Create(p, a) \/ Migrate(p, a)
    PROVE  Safe(p) /\ UNCHANGED disturbed
<1>1. PICK o \in {"rebase", "promote", "create", "migrate", "reconcile"},
           at \in {"reading", "waiting", "copying", "importing", "entering"} :
         Started(p, o, a, at)
  BY DEF Rebase, Promote, Integrate, Create, Migrate
<1>2. proc'[p].at = at /\ proc'[p].op = o /\ At(p, "idle")
  <2>1. o \in Operations /\ at \in Phases /\ Types
    BY DEF Operations, Phases, KeepInv, Inv
  <2> QED BY <1>1, <2>1, StartedStep
<1>3. UNCHANGED <<tree, litter, disturbed>> /\ (record' = record \/ record' = [record EXCEPT ![a] = "bare"])
  BY DEF Rebase, Promote, Integrate, Create, Migrate
<1>4. Opens
  BY <1>3 DEF Opens, Readable, KeepInv, Inv, Types
<1> QED BY <1>2, <1>3, <1>4, StillSafe DEF Moving, At

LEMMA CallsSafe ==
    ASSUME KeepInv, "no backup" \notin disturbed, NEW p \in Procs, ReplaceTrees(p)
    PROVE  Safe(p)
<1>0. Inv /\ Types /\ Keeps(p) /\ Integrated(p) /\ Orderly(p)
  BY DEF KeepInv, Inv
<1> USE <1>0
<1>1. ASSUME \A d \in Dests : litter[d] \subseteq litter'[d],
             UNCHANGED record, proc'[p].op = proc[p].op,
             proc'[p].at \in Moving \cup Exits
      PROVE  Opens /\ Integrated(p)'
  BY <1>1, DestinationsAreGiven DEF Opens, Readable, Integrated, Moving, Exits
<1>2. CASE MoveAway(p)
  <2>1. Keeps(p)'
    <3>1. Installed(p)' = Installed(p) /\ Undoable(p) /\ proc'[p].at = "between"
      BY <1>2, MoveAwayStep DEF Installed, Undoable, SameCall, At, Moving
    <3>2. \A d \in Installed(p) : tree'[d] # Absent \/ litter'[d] # {}
      <4>1. Installed(p) \subseteq Dests
        BY <1>2, MoveAwayStep, OwnFacts DEF At, Moving
      <4> QED BY <1>2, <4>1, MoveAwayStep DEF Keeps, At, MovingFrame
    <3>3. \A d \in Installed(p) : d \in Saved(p)' \/ litter'[d] # {}
      BY <1>2, <3>1, MoveAwayStep DEF Keeps, MovingFrame
    <3> QED BY <3>1, <3>2, <3>3 DEF Keeps
  <2>2. Target(p) \in Own(p)
    BY <1>2, MoveAwayStep DEF Orderly, At, Moving
  <2> QED BY <1>1, <1>2, <2>1, <2>2, MoveAwayStep DEF Safe, MovingFrame, Moving, At
<1>3. CASE MoveIn(p)
  <2>1. Undoable(p) /\ proc'[p].at = "replacing"
    BY <1>3, MoveInStep DEF Undoable, Moving
  <2>2. Target(p) \in Own(p) /\ Installed(p) \subseteq Own(p) /\ Own(p) \subseteq Dests
    <3>1. proc[p].at \in Moving
      BY <1>3, MoveInStep DEF Moving
    <3>2. Target(p) \in Own(p) /\ Installed(p) \subseteq Own(p)
      BY <1>3, <3>1, MoveInStep DEF Orderly
    <3>3. Own(p) \subseteq Dests
      BY <3>1, LockedFacts, DestinationsAreGiven DEF Own, Locked, Moving
    <3> QED BY <3>2, <3>3
  <2>3. Target(p) \in Saved(p) \/ litter[Target(p)] # {}
    <3>1. Readable(proc[p].area) /\ proc[p].area \in Areas /\ proc[p].at \in Moving
      BY <1>3, MoveInStep, LockedFacts DEF Locked, Moving
    <3>2. \A a \in Areas : Target(p) \in {Base(a), Overlay(a)} => Readable(a)
      BY <2>2, <3>1, DestinationsAreGiven DEF Own
    <3>3. Backed(Target(p))
      BY <1>3, <2>2, <3>2, MoveInStep DEF KeepInv, TreesSurvive
    <3>4. ASSUME NEW q \in Procs, q # p, Target(p) \in Saved(q) PROVE FALSE
      <4>1. proc[q].at \in Moving /\ Target(p) \in Own(q)
        BY <3>4, EmptyElements DEF Inv, Orderly, Saved
      <4> QED BY <2>2, <3>1, <3>4, <4>1, OwnersAreAlone
    <3> QED BY <2>2, <3>3, <3>4, SavedElsewhere
  <2>4. tree'[Target(p)] # Absent
    <3>1. proc[p].jobs[1][2] \in Trees
      BY <1>3, MoveInStep DEF Pairs
    <3> QED BY <1>3, <3>1, MoveInStep, AbsentIsNoTree
  <2>5. Keeps(p)'
    <3>0. /\ proc[p].at \in {"replacing", "between"} /\ litter' = litter /\ Saved(p)' = Saved(p)
          /\ Installed(p)' = Installed(p) \cup {Target(p)}
          /\ \A d \in Dests : d # Target(p) => tree'[d] = tree[d]
      BY <1>3, MoveInStep DEF MovingFrame
    <3>1. \A d \in Installed(p)' : tree'[d] # Absent \/ litter'[d] # {}
      BY <2>2, <2>4, <3>0 DEF Keeps
    <3>2. \A d \in Installed(p)' : d \in Saved(p)' \/ litter'[d] # {}
      BY <2>1, <2>3, <3>0 DEF Keeps
    <3> QED BY <3>1, <3>2 DEF Keeps
  <2> QED BY <1>1, <1>3, <2>4, <2>5, MoveInStep DEF Safe, MovingFrame, Moving
<1>4. CASE RenameFails(p)
  <2>1. Installed(p)' = Installed(p) /\ Saved(p)' = Saved(p) /\ Undoable(p) /\ proc'[p].at = "undoing"
    BY <1>4, RenameFailsStep DEF Installed, Saved, Undoable, SameCall, Moving
  <2>2. Keeps(p)'
    BY <1>4, <2>1, RenameFailsStep DEF Keeps, MovingFrame
  <2> QED BY <1>1, <1>4, <2>1, <2>2, RenameFailsStep DEF Safe, MovingFrame, Moving
<1>5. CASE RemoveInstalled(p)
  <2>1. Undoable(p) /\ proc'[p].at = "undoing" /\ Saved(p)' = Saved(p)
    BY <1>5, RemoveInstalledStep DEF Undoable, At, Moving
  <2>2. PICK d \in Dests : /\ d \in Own(p) /\ Installed(p) = {d} \cup Installed(p)'
                           /\ tree'[d] = Absent
                           /\ \A e \in Dests : e # d => tree'[e] = tree[e]
    BY <1>5, RemoveInstalledStep
  <2>3. Keeps(p)'
    BY <1>5, <2>1, <2>2, RemoveInstalledStep DEF Keeps, MovingFrame
  <2>4. d \in Saved(p) \/ litter[d] # {}
    BY <2>1, <2>2 DEF Keeps
  <2> QED BY <1>1, <1>5, <2>1, <2>2, <2>3, <2>4, RemoveInstalledStep
          DEF Safe, MovingFrame, Moving, At
<1>6. CASE RestoreBackup(p)
  <2>1. PICK e \in Pairs : /\ e[1] \in Own(p) /\ tree[e[1]] = Absent /\ tree'[e[1]] = e[2]
                           /\ \A d \in Dests : d # e[1] => tree'[d] = tree[d]
                           /\ Saved(p) = {e[1]} \cup Saved(p)'
    BY <1>6, RestoreBackupStep
  <2>2. e[2] # Absent
    BY AbsentIsNoTree DEF Pairs
  <2>3. Installed(p)' = {} /\ proc'[p] = proc[p] /\ At(p, "undoing")
    BY <1>6, RestoreBackupStep DEF Installed
  <2>4. Keeps(p)'
    BY <2>3 DEF Keeps
  <2> QED BY <1>1, <1>6, <2>1, <2>2, <2>3, <2>4, RestoreBackupStep DEF Safe, MovingFrame, Moving, At
<1>7. CASE RestoreFails(p)
  <2>1. litter' = Littered(p) /\ proc'[p].at \in Exits /\ UNCHANGED <<tree, record>>
        /\ proc'[p].op = proc[p].op
    BY <1>7, RestoreFailsStep
  <2>2. Keeps(p)'
    BY <2>1 DEF Keeps, Undoable, Moving, Exits
  <2>3. Saved(p) \subseteq Dests
    BY <1>7, RestoreFailsStep, OwnFacts DEF At, Moving
  <2> QED BY <1>1, <2>1, <2>2, <2>3, LitteredType DEF Safe
<1>8. CASE Raise(p) \/ Replaced(p)
  <2>1. UNCHANGED <<tree, litter, backups, record>> /\ proc'[p].at \in Exits
        /\ proc'[p].op = proc[p].op /\ Saved(p) = {}
    BY <1>8, RaiseStep, ReplacedStep
  <2>2. Keeps(p)'
    BY <2>1 DEF Keeps, Undoable, Moving, Exits
  <2> QED BY <1>1, <2>1, <2>2 DEF Safe
<1>9. CASE DropBackup(p)
  <2>1. UNCHANGED <<tree, proc, litter, record>> /\ At(p, "replacing") /\ proc[p].jobs = <<>>
    BY <1>9, DropBackupStep DEF MovingFrame
  <2>2. Keeps(p)'
    BY <2>1 DEF Keeps, Undoable, At, Installed
  <2>3. \A d \in Saved(p) : litter'[d] # {} \/ tree'[d] # Absent
    BY <2>1 DEF Keeps, Orderly, At
  <2> QED BY <1>1, <2>1, <2>2, <2>3 DEF Safe, Moving, At
<1> QED BY <1>2, <1>3, <1>4, <1>5, <1>6, <1>7, <1>8, <1>9 DEF ReplaceTrees

LEMMA RebasesSafe ==
    ASSUME KeepInv, "no backup" \notin disturbed, NEW p \in Procs,
           RebaseLocked(p) \/ CallFails(p) \/ Finish(p) \/ PromoteTrees(p)
    PROVE  Safe(p)
<1>0. Inv /\ Types
  BY DEF KeepInv, Inv
<1> USE <1>0
<1>1. CASE ReadTrees(p)
  <2>1. /\ At(p, "reading") /\ UNCHANGED <<tree, litter>>
        /\ \A a \in Areas : a # proc[p].area => record'[a] = record[a]
    BY <1>1 DEF ReadTrees, Types
  <2>2. Readable(proc[p].area)
    BY <2>1, LockedFacts DEF At, Locked
  <2>3. Opens
    BY <2>1, <2>2 DEF Opens, Readable
  <2>4. proc'[p].at \in {"rebased", "failing", "prepared"} /\ proc'[p].op = proc[p].op
    BY <1>1, ReadTreesStep
  <2> QED BY <2>1, <2>3, <2>4, StillSafe DEF At, Moving
<1>2. CASE ReplacePair(p)
  BY <1>2, ReplacePairStep, CalledSafe DEF ReplacePair, At, Moving
<1>3. CASE Revert(p)
  BY <1>3, RevertStep, CalledSafe DEF Revert, At, Moving
<1>4. CASE Commit(p)
  <2>1. /\ At(p, "committing") /\ UNCHANGED <<tree, litter>>
        /\ record' = [record EXCEPT ![proc[p].area] = "ready"]
    BY <1>4 DEF Commit
  <2>2. Readable(proc[p].area)
    BY <2>1, LockedFacts DEF At, Locked
  <2>3. Opens
    BY <2>1, <2>2 DEF Opens, Readable, Types
  <2>4. proc'[p].at = "rebased" /\ proc'[p].op = proc[p].op
    BY <1>4, CommitStep
  <2> QED BY <2>1, <2>3, <2>4, StillSafe DEF At, Moving
<1>5. CASE CallFails(p)
  <2>1. proc[p].at \in {"prepared", "committing", "sourced"} /\ UNCHANGED <<tree, litter, record>>
    BY <1>5 DEF CallFails
  <2>2. proc'[p].at \in {"failing", "reverting", "handling"} /\ proc'[p].op = proc[p].op
    BY <1>5, <2>1, CallFailsStep DEF At
  <2>3. Opens
    BY <2>1 DEF Opens, Readable
  <2> QED BY <2>1, <2>2, <2>3, StillSafe DEF Moving
<1>6. CASE Finish(p)
  <2>1. proc[p].at \notin Moving /\ UNCHANGED <<tree, litter, record>>
    BY <1>6 DEF Finish, At, Moving
  <2>2. Opens /\ proc'[p] = Idle
    BY <1>6, <2>1, FinishStep DEF Opens, Readable
  <2> QED BY <2>1, <2>2, IdleFields, StillSafe DEF Moving
<1>7. CASE LockPromotion(p)
  <2>1. At(p, "waiting") /\ UNCHANGED <<tree, litter, record>>
    BY <1>7 DEF LockPromotion
  <2>2. Opens /\ proc'[p].at = "reading" /\ proc'[p].op = proc[p].op
    BY <1>7, <2>1, LockPromotionStep DEF Opens, Readable
  <2> QED BY <2>1, <2>2, StillSafe DEF Moving, At
<1>8. CASE ReplaceSource(p)
  <2>1. CASE proc'[p].at = "failing" /\ proc'[p].op = proc[p].op /\ Steady
    <3>1. Opens /\ At(p, "rebased") /\ UNCHANGED <<tree, litter>>
      BY <1>8, <2>1, ReplaceSourceStep DEF Opens, Readable, Steady
    <3> QED BY <2>1, <3>1, StillSafe DEF Moving, At
  <2>2. CASE Called(p, "source", <<<<Src, Read(Overlay(proc[p].area))>>>>)
    BY <1>8, <2>2, CalledSafe DEF ReplaceSource, At, Moving
  <2> QED BY <1>8, <2>1, <2>2, ReplaceSourceStep
<1>9. CASE ReplaceBase(p)
  BY <1>9, ReplaceBaseStep, CalledSafe DEF At, Moving
<1>10. CASE Handle(p)
  <2>1. CASE proc'[p].at = "failing" /\ proc'[p].op = proc[p].op /\ Steady
    <3>1. Opens /\ At(p, "handling") /\ UNCHANGED <<tree, litter>>
      BY <1>10, <2>1, HandleStep DEF Opens, Readable, Steady
    <3> QED BY <2>1, <3>1, StillSafe DEF Moving, At
  <2>2. CASE Called(p, "sourceUndo", <<<<Src, proc[p].before>>>>)
    BY <1>10, <2>2, CalledSafe DEF Handle, At, Moving
  <2> QED BY <1>10, <2>1, <2>2, HandleStep
<1>11. CASE RecordPromotion(p)
  <2>1. At(p, "recording") /\ UNCHANGED <<tree, litter>>
        /\ record' = [record EXCEPT ![proc[p].area] = "promoted"]
    BY <1>11 DEF RecordPromotion
  <2>2. Readable(proc[p].area)
    BY <2>1, LockedFacts DEF At, Locked
  <2>3. Opens /\ proc'[p] = Idle
    BY <1>11, <2>1, <2>2, RecordPromotionStep DEF Opens, Readable, Types
  <2> QED BY <2>1, <2>3, IdleFields, StillSafe DEF Moving, At
<1> QED BY <1>1, <1>2, <1>3, <1>4, <1>5, <1>6, <1>7, <1>8, <1>9, <1>10, <1>11
        DEF RebaseLocked, PromoteTrees

LEMMA MakingSafe ==
    ASSUME KeepInv, "no backup" \notin disturbed, NEW p \in Procs,
           CopyTree(p) \/ ImportTree(p) \/ WriteRecord(p)
    PROVE  Safe(p)
<1>0. Inv /\ Types /\ Integrated(p)
  BY DEF KeepInv, Inv
<1> USE <1>0
<1>1. CASE CopyTree(p)
  <2>1. At(p, "copying") /\ UNCHANGED <<litter, record>> /\ Opens
    BY <1>1, CopyTreeStep DEF Opens, Readable
  <2>2. \/ proc'[p].at = "failing" /\ proc'[p].op = proc[p].op
        \/ proc'[p] = proc[p]
    BY <1>1, CopyTreeStep
  <2>3. \A d \in Dests : tree'[d] # Absent \/ tree'[d] = tree[d]
    BY <1>1, CopyTreeStep
  <2>4. Integrated(p)'
    BY <2>1, <2>2 DEF Integrated
  <2> QED BY <2>1, <2>2, <2>3, <2>4, RestSafe DEF At, Moving
<1>2. CASE ImportTree(p)
  <2>1. At(p, "importing") /\ UNCHANGED <<proc, litter, record>> /\ Opens
    BY <1>2, ImportTreeStep DEF Opens, Readable
  <2>2. LegacyWork # Absent /\ LegacyRoot # Absent
    BY TreesAreGiven, AbsentIsNoTree
  <2>3. \A d \in Dests : tree'[d] # Absent \/ tree'[d] = tree[d]
    BY <1>2, <2>2, ImportTreeStep
  <2>4. Integrated(p)'
    BY <2>1 DEF Integrated
  <2> QED BY <2>1, <2>3, <2>4, RestSafe DEF At, Moving
<1>3. CASE WriteRecord(p)
  <2>1. /\ proc[p].at \in {"copying", "importing"} /\ UNCHANGED <<tree, litter>>
        /\ tree[Base(proc[p].area)] # Absent /\ tree[Overlay(proc[p].area)] # Absent
        /\ record' = [record EXCEPT ![proc[p].area] = "ready"]
    BY <1>3 DEF WriteRecord, At
  <2>2. Opens /\ proc'[p] = Idle
    BY <1>3, <2>1, WriteRecordStep DEF Opens, Readable, Types
  <2> QED BY <2>1, <2>2, IdleFields, StillSafe DEF Moving
<1> QED BY <1>1, <1>2, <1>3

LEMMA IntegrationsSafe ==
    ASSUME KeepInv, "no backup" \notin disturbed', disturbed \subseteq disturbed', NEW p \in Procs,
           IntegrateTrees(p)
    PROVE  Safe(p)
<1>0. Inv /\ Types /\ Integrated(p) /\ "no backup" \notin disturbed /\ Src \in Dests
  BY DestinationsAreGiven DEF KeepInv, Inv
<1> USE <1>0
<1>1. CASE LockArea(p)
  <2>1. At(p, "entering") /\ UNCHANGED <<tree, litter, record>>
    BY <1>1 DEF LockArea
  <2>2. Opens /\ proc'[p].at \in {"reading", "failing"} /\ proc'[p].op = proc[p].op
    BY <1>1, <2>1, LockAreaStep DEF Opens, Readable
  <2> QED BY <2>1, <2>2, StillSafe DEF Moving, At
<1>2. CASE Reconciled(p)
  <2>1. At(p, "rebased") /\ UNCHANGED <<tree, litter, record>>
    BY <1>2 DEF Reconciled
  <2>2. Opens /\ proc'[p].at = "integrating" /\ proc'[p].op = proc[p].op
    BY <1>2, <2>1, ReconciledStep DEF Opens, Readable
  <2> QED BY <2>1, <2>2, StillSafe DEF Moving, At
<1>3. CASE BackUp(p)
  <2>1. /\ At(p, "integrating") /\ proc'[p].op = proc[p].op /\ UNCHANGED <<tree, record>>
        /\ \A d \in Dests : litter[d] \subseteq litter'[d]
        /\ proc'[p].at = "failing" \/ (proc'[p].at = "applying" /\ litter'[Src] # {})
    BY <1>3, BackUpStep
  <2>2. Opens
    BY <2>1 DEF Opens, Readable
  <2>3. Integrated(p)'
    BY <2>1 DEF Integrated
  <2> QED BY <2>1, <2>2, <2>3, RestSafe DEF At, Moving
<1>4. CASE Apply(p)
  <2>1. /\ At(p, "applying") /\ UNCHANGED <<litter, record>> /\ OnlySource /\ tree'[Src] # Absent
        /\ proc'[p].at \in {"entering", "restoring"}
    BY <1>4, ApplyStep
  <2>2. Opens /\ Integrated(p)'
    BY <2>1 DEF Opens, Readable, Integrated, At
  <2> QED BY <2>1, <2>2, RestSafe DEF At, Moving, OnlySource
<1>5. CASE NotAccepted(p)
  <2>1. At(p, "failing") /\ UNCHANGED <<tree, litter, record>>
    BY <1>5 DEF NotAccepted
  <2>2. Opens /\ proc'[p].at = "restoring" /\ proc[p].op = "accept"
    BY <1>5, <2>1, NotAcceptedStep DEF Opens, Readable
  <2> QED BY <2>1, <2>2, StillSafe DEF Moving, At
<1>6. CASE RemoveSource(p)
  <2>1. /\ At(p, "restoring") /\ UNCHANGED <<litter, record>> /\ OnlySource
        /\ proc'[p].at = "removed"
    BY <1>6, RemoveSourceStep
  <2>2. Opens /\ litter'[Src] # {} /\ Integrated(p)'
    BY <2>1 DEF Opens, Readable, Integrated, At
  <2> QED BY <2>1, <2>2, RestSafe DEF At, Moving, OnlySource
<1>7. CASE CopyBackup(p)
  <2>1. /\ At(p, "removed") /\ UNCHANGED <<litter, record>> /\ OnlySource /\ proc'[p] = Idle
    BY <1>7, CopyBackupStep
  <2>2. Opens /\ litter'[Src] # {} /\ Integrated(p)'
    BY <2>1 DEF Opens, Readable, Integrated, At
  <2> QED BY <2>1, <2>2, IdleFields, RestSafe DEF At, Moving, OnlySource
<1> QED BY <1>1, <1>2, <1>3, <1>4, <1>5, <1>6, <1>7 DEF IntegrateTrees

LEMMA KillSafe ==
    ASSUME KeepInv, NEW p \in Procs, Kill(p)
    PROVE  Safe(p)
<1>1. Types /\ proc'[p] = Idle /\ litter' = Littered(p) /\ UNCHANGED <<tree, record>>
  BY KillStep DEF KeepInv, Inv
<1>2. /\ \A d \in Dests : litter[d] \subseteq litter'[d]
      /\ \A d \in Saved(p) : litter'[d] # {}
  <2>1. Saved(p) \subseteq Dests
    <3>1. CASE proc[p].at \in Moving
      BY <3>1, OwnFacts DEF KeepInv
    <3>2. CASE proc[p].at \notin Moving
      BY <3>2, EmptyElements DEF KeepInv, Inv, Orderly, Saved
    <3> QED BY <3>1, <3>2
  <2> QED BY <1>1, <2>1, LitteredType
<1>3. Opens /\ Keeps(p)' /\ Integrated(p)'
  BY <1>1, IdleFields DEF Opens, Readable, Keeps, Undoable, Moving, Integrated
<1> QED BY <1>1, <1>2, <1>3 DEF Safe

LEMMA KeepStep == KeepInv /\ [Next]_vars => KeepInv'
<1> SUFFICES ASSUME KeepInv, [Next]_vars PROVE KeepInv'
  OBVIOUS
<1>0. Inv /\ Inv' /\ Types /\ Types'
  BY InvStep DEF KeepInv, Inv
<1>1. CASE UNCHANGED vars
  <2>1. UNCHANGED <<tree, litter, backups, record, proc, disturbed>>
    BY <1>1 DEF vars
  <2>2. TreesSurvive'
    BY <2>1 DEF KeepInv, TreesSurvive, Backed, Readable
  <2>3. ASSUME NEW p \in Procs, Keeps(p), Integrated(p) PROVE Keeps(p)' /\ Integrated(p)'
    BY <2>1, <2>3 DEF Keeps, Undoable, At, Installed, Saved, Integrated
  <2> QED BY <1>0, <2>1, <2>2, <2>3 DEF KeepInv
<1>2. ASSUME NEW p \in Procs, NEW a \in Areas,
             Rebase(p, a) \/ Promote(p, a) \/ Integrate(p, a) \/ Create(p, a) \/ Migrate(p, a)
      PROVE  KeepInv'
  <2>1. disturbed' = disturbed
    BY <1>2 DEF Rebase, Promote, Integrate, Create, Migrate
  <2> QED BY <1>0, <1>2, <2>1, StartSteps, StartSafe, SafeStep
<1>3. ASSUME NEW p \in Procs, Works(p) \/ Kill(p) PROVE KeepInv'
  <2>1. disturbed \subseteq disturbed'
    BY <1>3, DisturbedGrows
  <2>2. Proper(p)
    BY <1>0, <1>3, WorksStep, KillStep
  <2>3. "no backup" \notin disturbed' => Safe(p)
    BY <1>3, <2>1, CallsSafe, RebasesSafe, MakingSafe, IntegrationsSafe, KillSafe DEF Works
  <2> QED BY <2>1, <2>2, <2>3, SafeStep
<1>4. ASSUME NEW e \in Edited, Edit(e[1], e[2]) PROVE KeepInv'
  <2>1. /\ UNCHANGED <<litter, backups, record, proc, disturbed>> /\ tree'[e[1]] \in Trees
        /\ \A d \in Dests : d # e[1] => tree'[d] = tree[d]
    BY <1>0, <1>4, EditStep
  <2>2. \A d \in Dests : tree'[d] = tree[d] \/ tree'[d] # Absent
    BY <2>1, AbsentIsNoTree
  <2>3. TreesSurvive'
    BY <2>1, <2>2 DEF KeepInv, TreesSurvive, Backed, Readable
  <2>4. ASSUME NEW p \in Procs, Keeps(p), Integrated(p) PROVE Keeps(p)' /\ Integrated(p)'
    <3>1. proc[p].at \in Moving => Installed(p) \subseteq Dests
      BY <1>0, OwnFacts
    <3>2. Installed(p)' = Installed(p) /\ Saved(p)' = Saved(p)
      BY <2>1 DEF Installed, Saved
    <3> QED BY <2>1, <2>2, <2>4, <3>1, <3>2 DEF Keeps, Undoable, At, Integrated, Moving
  <2> QED BY <1>0, <2>1, <2>3, <2>4 DEF KeepInv
<1> QED BY <1>1, <1>2, <1>3, <1>4 DEF Next

\* A tree that is not in its place is in a backup, for any number of areas,
\* processes, edits, failures and kills: nothing that _replace_trees or integrate
\* moves away is lost, whoever interrupts it between two renames.
THEOREM NoTreeVanishes == ReplacementSpec => []TreesSurvive
<1>1. Init => KeepInv
  <2> SUFFICES ASSUME Init PROVE KeepInv
    OBVIOUS
  <2>1. Inv
    BY InitInv
  <2>2. InitialSource # Absent
    BY TreesAreGiven, AbsentIsNoTree
  <2>3. TreesSurvive
    BY <2>2 DEF Init, TreesSurvive, Dests, Readable
  <2>4. \A p \in Procs : Keeps(p) /\ Integrated(p)
    BY IdleFields DEF Init, Keeps, Undoable, Moving, Integrated
  <2> QED BY <2>1, <2>3, <2>4 DEF KeepInv
<1>2. KeepInv => TreesSurvive
  BY DEF KeepInv
<1> QED BY <1>1, <1>2, KeepStep, PTL DEF ReplacementSpec

----------------------------------------------------------------------------
(* What a failed replacement puts back, and what a promotion overwrites.   *)

\* Where a step of a process may change trees.
Confined(p) ==
    \A d \in Dests :
        \/ tree'[d] = tree[d]
        \/ proc[p].at \in Moving /\ d \in Own(p)
        \/ proc[p].at \in {"copying", "importing"} /\ d \in {Base(proc[p].area), Overlay(proc[p].area)}
        \/ d = Src /\ (proc[p].at \in {"restoring", "removed"} \/ "integration" \in disturbed')

LEMMA ConfinedStep ==
    ASSUME Inv, NEW p \in Procs, Works(p) \/ Kill(p)
    PROVE  Confined(p) /\ UNCHANGED edits
<1>1. CASE MoveAway(p)
  <2>1. Target(p) \in Own(p)
    BY <1>1, MoveAwayStep, OwnFacts DEF At, Moving
  <2> QED BY <1>1, <2>1, MoveAwayStep DEF Confined, MovingFrame, At, Moving
<1>2. CASE MoveIn(p)
  <2>1. Target(p) \in Own(p)
    BY <1>2, MoveInStep, OwnFacts DEF Moving
  <2> QED BY <1>2, <2>1, MoveInStep DEF Confined, MovingFrame, Moving
<1>3. CASE RenameFails(p) \/ RestoreFails(p) \/ Raise(p) \/ DropBackup(p) \/ Replaced(p)
  BY <1>3 DEF RenameFails, RestoreFails, Raise, DropBackup, Replaced, Confined, counters
<1>4. CASE RemoveInstalled(p)
  BY <1>4, RemoveInstalledStep DEF Confined, MovingFrame, At, Moving
<1>5. CASE RestoreBackup(p)
  <2>1. At(p, "undoing") /\ edits' = edits
    BY <1>5, RestoreBackupStep DEF MovingFrame
  <2>2. PICK e \in Pairs : e[1] \in Own(p) /\ \A d \in Dests : d # e[1] => tree'[d] = tree[d]
    BY <1>5, RestoreBackupStep
  <2> QED BY <2>1, <2>2 DEF Confined, At, Moving
<1>6. CASE RebaseLocked(p) \/ CallFails(p) \/ Finish(p) \/ PromoteTrees(p)
  <2>1. UNCHANGED <<tree, edits>>
    BY <1>6 DEF RebaseLocked, CallFails, Finish, PromoteTrees, ReadTrees, ReplacePair, Commit, Revert,
                LockPromotion, ReplaceSource, ReplaceBase, Handle, RecordPromotion, counters
  <2> QED BY <2>1 DEF Confined
<1>7. CASE CopyTree(p)
  BY <1>7, CopyTreeStep DEF Confined, At, counters
<1>8. CASE ImportTree(p)
  BY <1>8, ImportTreeStep DEF Confined, At, counters
<1>9. CASE WriteRecord(p) \/ LockArea(p) \/ Reconciled(p) \/ NotAccepted(p) \/ BackUp(p) \/ Kill(p)
  BY <1>9 DEF WriteRecord, LockArea, Reconciled, NotAccepted, BackUp, Kill, Confined, counters
<1>10. CASE Apply(p)
  BY <1>10, ApplyStep DEF Confined, OnlySource
<1>11. CASE RemoveSource(p) \/ CopyBackup(p)
  BY <1>11, RemoveSourceStep, CopyBackupStep DEF Confined, OnlySource, At, counters
<1> QED BY <1>1, <1>2, <1>3, <1>4, <1>5, <1>6, <1>7, <1>8, <1>9, <1>10, <1>11
        DEF Works, ReplaceTrees, IntegrateTrees

\* The two sides of a tree that developers may have edited.
Kept(d) ==
    \/ tree'[d] = tree[d]
    \/ /\ tree[d] # Absent /\ tree'[d] # Absent
       /\ \A f \in Paths : \/ tree'[d][f] = tree[d][f]
                           \/ tree'[d][f] = Newest + 1 /\ tree'[d][f] # Missing

\* The tree is what it was before the call, or what edits since have made of it.
Matches(p, d) ==
    IF proc[p].original[d] = Absent THEN tree[d] = Absent
    ELSE tree[d] # Absent /\ SameButEdits(tree[d], proc[p].original[d], proc[p].since)

\* The call can put back what it has found.
Restores(p) ==
    /\ proc[p].since <= Newest
    /\ proc[p].at \in Moving =>
         /\ Pending(p) \cup Installed(p) \cup Saved(p) \subseteq DOMAIN proc[p].original
         /\ DOMAIN proc[p].original \subseteq Own(p)
         /\ \A e \in Elements(backups[p]) :
                /\ proc[p].original[e[1]] # Absent
                /\ SameButEdits(e[2], proc[p].original[e[1]], proc[p].since)
         /\ \A d \in DOMAIN proc[p].original \ (Installed(p) \cup Saved(p)) : Matches(p, d)
    /\ Undoable(p) => \A d \in Installed(p) \ Saved(p) : proc[p].original[d] = Absent

\* A promotion that has read src/ and not yet moved it away.
AwaitsSource(p) ==
    /\ proc[p].op = "promote"
    /\ \/ proc[p].at \in {"prepared", "rebased", "committing", "reverting"}
       \/ proc[p].at \in Moving /\ proc[p].call \in {"rebase", "rebaseUndo"}
       \/ At(p, "replacing") /\ proc[p].call = "source" /\ proc[p].jobs # <<>>

Promotes(p) == AwaitsSource(p) => SameButEdits(Read(Src), proc[p].current, proc[p].since)

\* No integration has written src/ yet.
Untouched(p) == proc[p].at \notin {"restoring", "removed"} /\ proc[p].op # "accept"

RestoreInv ==
    Inv /\ ("integration" \in disturbed \/ \A p \in Procs : Untouched(p) /\ Restores(p) /\ Promotes(p))

LEMMA NewestIsNat == Inv => Newest \in Nat
BY NumberedContents, BoundsAreNaturals DEF Inv, Types, Newest

LEMMA SameIsSame == \A t, n : SameButEdits(t, t, n)
BY DEF SameButEdits

\* What is kept still matches what it matched.
LEMMA KeptMatches ==
    ASSUME Inv, NEW d, Kept(d), NEW other, NEW n \in Nat, n <= Newest, tree[d] # Absent,
           SameButEdits(tree[d], other, n)
    PROVE  tree'[d] # Absent /\ SameButEdits(tree'[d], other, n)
<1>1. CASE tree'[d] = tree[d]
  BY <1>1
<1>2. CASE tree'[d] # tree[d]
  <2>1. tree'[d] # Absent
    BY <1>2 DEF Kept
  <2>2. ASSUME NEW f \in Paths
        PROVE  tree'[d][f] = other[f] \/ (tree'[d][f] # Missing /\ tree'[d][f] > n)
    <3>1. \/ tree'[d][f] = tree[d][f]
          \/ tree'[d][f] = Newest + 1 /\ tree'[d][f] # Missing
      BY <1>2 DEF Kept
    <3>2. Newest \in Nat /\ Newest + 1 > n
      BY NewestIsNat
    <3>3. tree[d][f] = other[f] \/ (tree[d][f] # Missing /\ tree[d][f] > n)
      BY DEF SameButEdits
    <3> QED BY <3>1, <3>2, <3>3
  <2> QED BY <2>1, <2>2 DEF SameButEdits
<1> QED BY <1>1, <1>2

LEMMA KeptAbsent ==
    ASSUME NEW d, Kept(d)
    PROVE  tree[d] = Absent <=> tree'[d] = Absent
BY DEF Kept

\* A process whose trees are kept.
LEMMA RestoresOther ==
    ASSUME Inv, NEW q \in Procs, Restores(q), proc'[q] = proc[q], backups'[q] = backups[q],
           Newest' \in Nat, Newest <= Newest',
           proc[q].at \in Moving => \A d \in Own(q) : Kept(d)
    PROVE  Restores(q)'
<1>1. /\ Pending(q)' = Pending(q) /\ Installed(q)' = Installed(q) /\ Saved(q)' = Saved(q)
      /\ Own(q)' = Own(q) /\ Undoable(q)' = Undoable(q)
  BY DEF Pending, Installed, Saved, Own, Undoable, At
<1>2. proc[q].since \in Nat /\ Newest \in Nat
  BY Fields, NewestIsNat DEF Inv
<1>3. proc'[q].since <= Newest'
  BY <1>2 DEF Restores
<1>4. ASSUME proc[q].at \in Moving,
             NEW d \in DOMAIN proc[q].original \ (Installed(q) \cup Saved(q))
      PROVE  Matches(q, d)'
  <2>1. Matches(q, d) /\ Kept(d)
    BY <1>4 DEF Restores
  <2>2. CASE proc[q].original[d] = Absent
    BY <2>1, <2>2, KeptAbsent DEF Matches
  <2>3. CASE proc[q].original[d] # Absent
    <3>1. tree'[d] # Absent /\ SameButEdits(tree'[d], proc[q].original[d], proc[q].since)
      BY <1>2, <2>1, <2>3, KeptMatches DEF Matches, Restores
    <3> QED BY <2>3, <3>1 DEF Matches
  <2> QED BY <2>2, <2>3
<1> QED BY <1>1, <1>3, <1>4 DEF Restores, SameButEdits

LEMMA PromotesOther ==
    ASSUME Inv, NEW q \in Procs, Restores(q), Promotes(q), proc'[q] = proc[q],
           AwaitsSource(q) => Kept(Src)
    PROVE  Promotes(q)'
<1>1. proc[q].since \in Nat /\ proc[q].since <= Newest
  BY Fields DEF Inv, Restores
<1>2. AwaitsSource(q)' = AwaitsSource(q)
  BY DEF AwaitsSource, At
<1> SUFFICES ASSUME AwaitsSource(q)
             PROVE  SameButEdits(Read(Src)', proc[q].current, proc[q].since)
  BY <1>2 DEF Promotes
<1>3. SameButEdits(Read(Src), proc[q].current, proc[q].since) /\ Kept(Src)
  BY DEF Promotes
<1>4. CASE tree[Src] = Absent
  BY <1>3, <1>4, KeptAbsent DEF Read
<1>5. CASE tree[Src] # Absent
  BY <1>1, <1>3, <1>5, KeptMatches DEF Read
<1> QED BY <1>4, <1>5

Right(p) == Untouched(p)' /\ Restores(p)' /\ Promotes(p)'

LEMMA RightStep ==
    ASSUME RestoreInv, NEW p \in Procs, Proper(p), Confined(p), UNCHANGED edits,
           disturbed \subseteq disturbed', "integration" \notin disturbed' => Right(p)
    PROVE  RestoreInv'
<1>1. Inv /\ Inv'
  BY ProperStep DEF RestoreInv
<1> SUFFICES ASSUME "integration" \notin disturbed', NEW q \in Procs, q # p
             PROVE  Untouched(q)' /\ Restores(q)' /\ Promotes(q)'
  BY <1>1 DEF RestoreInv, Right
<1>2. /\ Untouched(q) /\ Restores(q) /\ Promotes(q) /\ Untouched(p)
      /\ proc'[q] = proc[q] /\ backups'[q] = backups[q]
  BY DEF RestoreInv, Proper, Others, OthersBackups
<1>3. Newest' = Newest /\ Newest \in Nat
  BY <1>1, NewestIsNat DEF Newest
<1>4. ASSUME proc[q].at \in Moving, NEW d \in Own(q) PROVE Kept(d)
  <2>1. d \in Dests /\ proc[q].area \in Areas /\ areaLock[proc[q].area] = q
    BY <1>1, <1>4, OwnFacts, LockedFacts DEF Locked, Moving
  <2>2. ~ (proc[p].at \in Moving /\ d \in Own(p))
    BY <1>1, <1>4, OwnersAreAlone
  <2>3. ~ (proc[p].at \in {"copying", "importing"} /\ d \in {Base(proc[p].area), Overlay(proc[p].area)})
    <3> SUFFICES ASSUME proc[p].at \in {"copying", "importing"},
                        d \in {Base(proc[p].area), Overlay(proc[p].area)}
                 PROVE FALSE
      OBVIOUS
    <3>1. proc[p].area \in Areas /\ areaLock[proc[p].area] = p
      BY <1>1, MakingFacts
    <3>2. proc[p].area # proc[q].area
      BY <2>1, <3>1
    <3> QED BY <1>4, <2>1, <3>1, <3>2, DestinationsAreGiven DEF Own
  <2>4. proc[p].at \notin {"restoring", "removed"}
    BY <1>2 DEF Untouched
  <2> QED BY <2>1, <2>2, <2>3, <2>4 DEF Confined, Kept
<1>5. ASSUME AwaitsSource(q) PROVE Kept(Src)
  <2>1. promotionLock = q
    BY <1>1, <1>5 DEF Inv, Holds, AwaitsSource, At, Moving
  <2>2. ~ (proc[p].at \in Moving /\ Src \in Own(p))
    <3> SUFFICES ASSUME proc[p].at \in Moving, Src \in Own(p) PROVE FALSE
      OBVIOUS
    <3>1. proc[p].area \in Areas /\ (proc[p].op = "promote" => promotionLock = p)
      BY <1>1, LockedFacts DEF Locked, Moving
    <3>2. proc[p].call \in SourceCalls
      BY <3>1, DestinationsAreGiven DEF Own
    <3>3. proc[p].op = "promote"
      BY <1>1, <3>2 DEF Inv, Holds, Promoting, SourceCalls
    <3> QED BY <2>1, <3>1, <3>3
  <2>3. ~ (proc[p].at \in {"copying", "importing"} /\ Src \in {Base(proc[p].area), Overlay(proc[p].area)})
    BY <1>1, MakingFacts, DestinationsAreGiven
  <2>4. proc[p].at \notin {"restoring", "removed"} /\ Src \in Dests
    BY <1>2, DestinationsAreGiven DEF Untouched
  <2> QED BY <2>2, <2>3, <2>4 DEF Confined, Kept
<1>6. Restores(q)'
  BY <1>1, <1>2, <1>3, <1>4, RestoresOther
<1>7. Promotes(q)'
  BY <1>1, <1>2, <1>5, PromotesOther
<1> QED BY <1>2, <1>6, <1>7 DEF Untouched

\* Steps into a phase in which nothing is being replaced.
LEMMA RestRight ==
    ASSUME RestoreInv, "integration" \notin disturbed, NEW p \in Procs,
           proc'[p].at \notin Moving, proc'[p].since <= Newest', Untouched(p)',
           AwaitsSource(p)' => /\ AwaitsSource(p) /\ tree'[Src] = tree[Src]
                               /\ proc'[p].current = proc[p].current
                               /\ proc'[p].since = proc[p].since
    PROVE  Right(p)
<1>1. Promotes(p)
  BY DEF RestoreInv
<1>2. Restores(p)'
  BY DEF Restores, Undoable
<1>3. Promotes(p)'
  BY <1>1 DEF Promotes, Read
<1> QED BY <1>2, <1>3 DEF Right

LEMMA CalledRight ==
    ASSUME RestoreInv, "integration" \notin disturbed, NEW p \in Procs, Proper(p),
           proc[p].at \notin Moving, NEW call, NEW jobs \in Seq(Pairs), Called(p, call, jobs),
           AwaitsSource(p)' => AwaitsSource(p)
    PROVE  Right(p)
<1>1. Promotes(p) /\ Restores(p) /\ Untouched(p)
  BY DEF RestoreInv
<1>2. /\ Pending(p)' = Firsts(jobs) /\ Installed(p)' = {} /\ Saved(p)' = {}
      /\ Elements(backups'[p]) = {} /\ proc'[p].at = "replacing"
      /\ proc'[p].original = [d \in Firsts(jobs) |-> tree[d]] /\ tree' = tree /\ Newest' = Newest
  <2>1. backups'[p] = <<>>
    BY DEF RestoreInv, Inv, Orderly, Called, Steady
  <2> QED BY <2>1, EmptyElements
          DEF Called, Steady, Pending, Installed, Saved, Newest, counters
<1>3. Pending(p)' \subseteq Own(p)'
  BY <1>2 DEF Proper, Orderly, Moving
<1>4. \A d \in Firsts(jobs) : Matches(p, d)'
  BY <1>2, SameIsSame DEF Matches
<1>5. Restores(p)'
  BY <1>1, <1>2, <1>3, <1>4 DEF Restores, Called
<1>6. Promotes(p)' /\ Untouched(p)'
  BY <1>1, <1>2 DEF Promotes, Called, Read, Untouched
<1> QED BY <1>5, <1>6 DEF Right

LEMMA CallsRight ==
    ASSUME RestoreInv, "integration" \notin disturbed, NEW p \in Procs, ReplaceTrees(p)
    PROVE  Right(p)
<1>0. /\ Inv /\ Restores(p) /\ Promotes(p) /\ Untouched(p) /\ Orderly(p) /\ Src \in Dests
      /\ proc[p].since <= Newest
  BY DestinationsAreGiven DEF RestoreInv, Inv, Restores
<1> USE <1>0
<1>1. ASSUME proc[p].at \in Moving
      PROVE  /\ Own(p) \subseteq Dests
             /\ Pending(p) \cup Installed(p) \cup Saved(p) \subseteq DOMAIN proc[p].original
             /\ DOMAIN proc[p].original \subseteq Own(p)
             /\ \A e \in Elements(backups[p]) :
                    /\ proc[p].original[e[1]] # Absent
                    /\ SameButEdits(e[2], proc[p].original[e[1]], proc[p].since)
             /\ \A d \in DOMAIN proc[p].original \ (Installed(p) \cup Saved(p)) : Matches(p, d)
  BY <1>1, OwnFacts DEF Restores
<1>2. ASSUME proc[p].at \in Moving, proc[p].call \in {"rebase", "rebaseUndo"}
      PROVE  Src \notin Own(p) /\ (proc[p].op = "promote" => AwaitsSource(p))
  <2>1. proc[p].area \in Areas
    BY <1>2, LockedFacts DEF Locked, Moving
  <2>2. Src \notin Own(p)
    BY <1>2, <2>1, DestinationsAreGiven DEF Own, SourceCalls
  <2> QED BY <1>2, <2>2 DEF AwaitsSource
\* Within a call, src/ is awaited by a rebase, or by a promotion before its first rename.
<1>3. ASSUME proc[p].at \in Moving, Newest' = Newest, SameMemory(p), proc'[p].op = proc[p].op,
             proc'[p].call = proc[p].call, proc'[p].at \in Moving,
             \A d \in Dests : d \notin Own(p) => tree'[d] = tree[d],
             At(p, "replacing")' /\ proc'[p].call = "source" /\ proc'[p].jobs # <<>> =>
                At(p, "replacing") /\ proc[p].jobs # <<>> /\ tree'[Src] = tree[Src]
      PROVE  Promotes(p)' /\ Untouched(p)' /\ proc'[p].since <= Newest'
  <2>1. AwaitsSource(p)' => AwaitsSource(p) /\ tree'[Src] = tree[Src]
    <3>1. /\ proc[p].at \in Moving /\ proc'[p].at \in Moving /\ proc'[p].call = proc[p].call
          /\ proc'[p].op = proc[p].op
      BY <1>3
    <3>2. CASE proc[p].call \in {"rebase", "rebaseUndo"}
      BY <1>2, <1>3, <3>1, <3>2 DEF AwaitsSource
    <3>3. CASE proc[p].call \notin {"rebase", "rebaseUndo"}
      BY <1>3, <3>1, <3>3 DEF AwaitsSource, At, Moving
    <3> QED BY <3>2, <3>3
  <2>2. Untouched(p)'
    BY <1>3 DEF Untouched, Moving
  <2> QED BY <1>3, <2>1, <2>2 DEF Promotes, Read, SameMemory
<1>4. CASE MoveAway(p)
  <2>1. /\ At(p, "replacing") /\ proc[p].at \in Moving /\ proc'[p].at = "between" /\ Undoable(p)
        /\ Newest' = Newest /\ SameMemory(p) /\ SameCall(p) /\ proc'[p].op = proc[p].op
        /\ Target(p) \in Pending(p) /\ Target(p) \notin Installed(p) /\ Target(p) \notin Saved(p)
        /\ tree[Target(p)] # Absent
        /\ \A d \in Dests : d # Target(p) => tree'[d] = tree[d]
        /\ Elements(backups'[p]) = Elements(backups[p]) \cup {<<Target(p), tree[Target(p)]>>}
        /\ Saved(p)' = Saved(p) \cup {Target(p)}
    BY <1>4, MoveAwayStep, AbsentIsNoTree DEF At, Moving, Undoable, Newest, MovingFrame
  <2>2. Pending(p)' = Pending(p) /\ Installed(p)' = Installed(p) /\ Own(p)' = Own(p)
    BY <2>1 DEF Pending, Installed, Own, SameCall, SameMemory
  <2>3. Target(p) \in Own(p) /\ Target(p) \in DOMAIN proc[p].original
    BY <1>1, <2>1
  <2>4. Promotes(p)' /\ Untouched(p)' /\ proc'[p].since <= Newest'
    BY <1>3, <2>1, <2>3 DEF SameCall, At, Moving
  <2>5. /\ proc[p].original[Target(p)] # Absent
        /\ SameButEdits(tree[Target(p)], proc[p].original[Target(p)], proc[p].since)
    <3>1. Matches(p, Target(p))
      BY <1>1, <2>1, <2>3
    <3> QED BY <2>1, <3>1 DEF Matches
  <2>6. \A e \in Elements(backups'[p]) :
           /\ proc'[p].original[e[1]] # Absent
           /\ SameButEdits(e[2], proc'[p].original[e[1]], proc'[p].since)
    BY <1>1, <2>1, <2>5 DEF SameCall, SameMemory
  <2>7. \A d \in DOMAIN proc[p].original \ (Installed(p)' \cup Saved(p)') : Matches(p, d)'
    BY <1>1, <2>1, <2>2 DEF Matches, SameCall, SameMemory
  <2>8. \A d \in Installed(p)' \ Saved(p)' : proc'[p].original[d] = Absent
    BY <2>1, <2>2 DEF Restores, SameCall
  <2>9. Restores(p)'
    BY <1>1, <2>1, <2>2, <2>3, <2>4, <2>6, <2>7, <2>8 DEF Restores, SameCall
  <2> QED BY <2>4, <2>9 DEF Right
<1>5. CASE MoveIn(p)
  <2>1. /\ proc[p].at \in Moving /\ proc'[p].at = "replacing" /\ Undoable(p)
        /\ Newest' = Newest /\ SameMemory(p) /\ proc'[p].op = proc[p].op
        /\ proc'[p].call = proc[p].call /\ proc'[p].original = proc[p].original
        /\ Target(p) \in Pending(p) /\ tree[Target(p)] = Absent
        /\ \A d \in Dests : d # Target(p) => tree'[d] = tree[d]
        /\ Pending(p) = Pending(p)' \cup {Target(p)} /\ Target(p) \notin Pending(p)'
        /\ Installed(p)' = Installed(p) \cup {Target(p)}
        /\ backups' = backups /\ Saved(p)' = Saved(p)
    BY <1>5, MoveInStep DEF Moving, Undoable, Newest, MovingFrame
  <2>2. Own(p)' = Own(p) /\ Target(p) \in Own(p) /\ Target(p) \in DOMAIN proc[p].original
        /\ Target(p) \notin Installed(p)
    <3>1. proc[p].at \in {"replacing", "between"}
      BY <1>5, MoveInStep
    <3> QED BY <1>1, <2>1, <3>1 DEF Own, SameMemory, Orderly
  <2>3. proc'[p].call = "source" => proc'[p].jobs = <<>>
    <3> SUFFICES ASSUME proc'[p].call = "source", proc'[p].jobs # <<>> PROVE FALSE
      OBVIOUS
    <3>1. Own(p) = {Src} /\ Pending(p)' = {}
      BY <1>1, <2>1, <2>2 DEF Own, SourceCalls
    <3>2. proc'[p].jobs \in Seq(Pairs)
      BY <1>5, MoveInStep DEF Proper, Types, Processes
    <3>3. Firsts(proc'[p].jobs) # {}
      BY <3>2, NonemptyFirsts
    <3> QED BY <3>1, <3>3 DEF Pending
  <2>4. Promotes(p)' /\ Untouched(p)' /\ proc'[p].since <= Newest'
    BY <1>3, <2>1, <2>2, <2>3 DEF Moving
  <2>5. Target(p) \in Saved(p) \/ proc[p].original[Target(p)] = Absent
    <3> SUFFICES ASSUME Target(p) \notin Saved(p) PROVE proc[p].original[Target(p)] = Absent
      OBVIOUS
    <3>1. Matches(p, Target(p))
      BY <1>1, <2>1, <2>2
    <3> QED BY <2>1, <3>1 DEF Matches
  <2>6. \A d \in DOMAIN proc[p].original \ (Installed(p)' \cup Saved(p)') : Matches(p, d)'
    BY <1>1, <2>1 DEF Matches, SameMemory
  <2>7. \A d \in Installed(p)' \ Saved(p)' : proc'[p].original[d] = Absent
    BY <2>1, <2>5 DEF Restores
  <2>8. Restores(p)'
    BY <1>1, <2>1, <2>2, <2>4, <2>6, <2>7 DEF Restores, SameMemory
  <2> QED BY <2>4, <2>8 DEF Right
<1>6. CASE RenameFails(p)
  <2>1. /\ proc[p].at \in Moving /\ proc'[p].at = "undoing" /\ Undoable(p)
        /\ Newest' = Newest /\ SameMemory(p) /\ SameCall(p) /\ proc'[p].op = proc[p].op
        /\ UNCHANGED <<tree, backups>>
    BY <1>6, RenameFailsStep DEF Moving, Undoable, Newest, MovingFrame
  <2>2. /\ Pending(p)' = Pending(p) /\ Installed(p)' = Installed(p) /\ Saved(p)' = Saved(p)
        /\ Own(p)' = Own(p)
    BY <2>1 DEF Pending, Installed, Own, SameCall, SameMemory, Saved
  <2>3. Promotes(p)' /\ Untouched(p)' /\ proc'[p].since <= Newest'
    BY <1>3, <2>1 DEF SameCall, At, Moving
  <2>4. Restores(p)'
    BY <1>1, <2>1, <2>2, <2>3 DEF Restores, SameCall, SameMemory, Matches
  <2> QED BY <2>3, <2>4 DEF Right
<1>7. CASE RemoveInstalled(p)
  <2>1. /\ proc[p].at \in Moving /\ proc'[p].at = "undoing" /\ Undoable(p) /\ UNCHANGED backups
        /\ Newest' = Newest /\ SameMemory(p) /\ proc'[p].op = proc[p].op
        /\ proc'[p].call = proc[p].call /\ proc'[p].original = proc[p].original
        /\ proc'[p].jobs = proc[p].jobs /\ Saved(p)' = Saved(p)
    BY <1>7, RemoveInstalledStep DEF At, Moving, Undoable, Newest, MovingFrame
  <2>2. PICK d \in Dests : /\ d \in Own(p) /\ Installed(p) = {d} \cup Installed(p)'
                           /\ tree'[d] = Absent
                           /\ \A e \in Dests : e # d => tree'[e] = tree[e]
    BY <1>7, RemoveInstalledStep
  <2>3. Pending(p)' = Pending(p) /\ Own(p)' = Own(p)
    BY <2>1 DEF Pending, Own, SameMemory
  <2>4. Promotes(p)' /\ Untouched(p)' /\ proc'[p].since <= Newest'
    BY <1>3, <2>1, <2>2 DEF At, Moving
  <2>5. ASSUME NEW e \in DOMAIN proc[p].original \ (Installed(p)' \cup Saved(p))
        PROVE  Matches(p, e)'
    <3>1. CASE e = d
      <4>1. proc[p].original[d] = Absent
        BY <2>1, <2>2, <2>5, <3>1 DEF Restores
      <4> QED BY <2>1, <2>2, <3>1, <4>1 DEF Matches
    <3>2. CASE e # d
      <4>1. Matches(p, e) /\ tree'[e] = tree[e]
        BY <1>1, <2>1, <2>2, <2>5, <3>2
      <4> QED BY <2>1, <4>1 DEF Matches, SameMemory
    <3> QED BY <3>1, <3>2
  <2>6. \A e \in Installed(p)' \ Saved(p)' : proc'[p].original[e] = Absent
    BY <2>1, <2>2 DEF Restores
  <2>7. Restores(p)'
    BY <1>1, <2>1, <2>2, <2>3, <2>4, <2>5, <2>6 DEF Restores, SameMemory
  <2> QED BY <2>4, <2>7 DEF Right
<1>8. CASE RestoreBackup(p)
  <2>1. /\ proc[p].at \in Moving /\ At(p, "undoing") /\ UNCHANGED proc /\ Newest' = Newest
        /\ Installed(p) = {}
    BY <1>8, RestoreBackupStep DEF At, Moving, Newest, MovingFrame
  <2>2. PICK e \in Pairs : /\ e[1] \in Own(p) /\ tree[e[1]] = Absent /\ tree'[e[1]] = e[2]
                           /\ \A d \in Dests : d # e[1] => tree'[d] = tree[d]
                           /\ Elements(backups[p]) = {e} \cup Elements(backups'[p])
                           /\ Saved(p) = {e[1]} \cup Saved(p)'
    BY <1>8, RestoreBackupStep
  <2>3. /\ Pending(p)' = Pending(p) /\ Own(p)' = Own(p) /\ Installed(p)' = {} /\ SameMemory(p)
    BY <2>1 DEF Pending, Own, SameMemory, Installed
  <2>4. Promotes(p)' /\ Untouched(p)' /\ proc'[p].since <= Newest'
    BY <1>3, <2>1, <2>2, <2>3 DEF At, Moving
  <2>5. ASSUME NEW d \in DOMAIN proc[p].original \ Saved(p)' PROVE Matches(p, d)'
    <3>1. CASE d = e[1]
      <4>1. /\ proc[p].original[d] # Absent
            /\ SameButEdits(e[2], proc[p].original[d], proc[p].since)
        BY <1>1, <2>1, <2>2, <3>1
      <4>2. e[2] # Absent
        BY AbsentIsNoTree DEF Pairs
      <4> QED BY <2>1, <2>2, <3>1, <4>1, <4>2 DEF Matches
    <3>2. CASE d # e[1]
      <4>1. Matches(p, d) /\ tree'[d] = tree[d]
        BY <1>1, <2>1, <2>2, <2>5, <3>2
      <4> QED BY <2>1, <4>1 DEF Matches
    <3> QED BY <3>1, <3>2
  <2>6. Restores(p)'
    BY <1>1, <2>1, <2>2, <2>3, <2>4, <2>5 DEF Restores
  <2> QED BY <2>4, <2>6 DEF Right
<1>9. CASE RestoreFails(p) \/ Raise(p) \/ Replaced(p)
  <2>1. /\ proc[p].at \in Moving /\ proc'[p].at \in Exits /\ SameMemory(p) /\ Newest' = Newest
        /\ proc'[p].op = proc[p].op /\ UNCHANGED tree
        /\ \/ proc'[p].at = Raises[proc[p].call]
           \/ proc'[p].at = Returns[proc[p].call]
        /\ proc[p].call \in Calls \ {"none"}
    BY <1>9, RestoreFailsStep, RaiseStep, ReplacedStep, Fields DEF At, Moving, Newest, counters, Inv
  <2>2. proc'[p].at \in {"committing", "reverting"} => proc[p].call = "rebase"
    BY <2>1, ExitsAreKnown
  <2>3. AwaitsSource(p)' => AwaitsSource(p)
    BY <1>2, <2>1, <2>2 DEF AwaitsSource, Exits, Moving, At
  <2> QED BY <2>1, <2>3, RestRight DEF Exits, Moving, SameMemory, Untouched
<1>10. CASE DropBackup(p)
  <2>1. /\ At(p, "replacing") /\ proc[p].at \in Moving /\ UNCHANGED <<tree, proc>> /\ Newest' = Newest
        /\ proc[p].jobs = <<>> /\ Elements(backups'[p]) \subseteq Elements(backups[p])
        /\ Saved(p)' \subseteq Saved(p) /\ Saved(p) \subseteq Installed(p)
    BY <1>10, DropBackupStep DEF At, Moving, Newest, MovingFrame, Orderly
  <2>2. /\ Pending(p)' = Pending(p) /\ Own(p)' = Own(p) /\ Installed(p)' = Installed(p)
        /\ SameMemory(p) /\ ~ Undoable(p)'
    BY <2>1 DEF Pending, Own, SameMemory, Installed, Undoable, At
  <2>3. Promotes(p)' /\ Untouched(p)' /\ proc'[p].since <= Newest'
    BY <1>3, <2>1, <2>2 DEF At, Moving
  <2>4. Restores(p)'
    BY <1>1, <2>1, <2>2, <2>3 DEF Restores, Matches
  <2> QED BY <2>3, <2>4 DEF Right
<1> QED BY <1>4, <1>5, <1>6, <1>7, <1>8, <1>9, <1>10 DEF ReplaceTrees

LEMMA RebasesRight ==
    ASSUME RestoreInv, "integration" \notin disturbed, NEW p \in Procs,
           RebaseLocked(p) \/ CallFails(p) \/ Finish(p) \/ PromoteTrees(p)
    PROVE  Right(p)
<1>0. /\ Inv /\ Types /\ Restores(p) /\ Promotes(p) /\ Untouched(p) /\ Src \in Dests
      /\ proc[p].since <= Newest /\ Newest \in Nat
  BY DestinationsAreGiven, NewestIsNat DEF RestoreInv, Inv, Restores
<1> USE <1>0
<1>1. ASSUME SameMemory(p), proc'[p].op = proc[p].op, UNCHANGED <<tree, edits>>,
             proc'[p].at \notin Moving \cup {"restoring", "removed"},
             AwaitsSource(p)' => AwaitsSource(p)
      PROVE  Right(p)
  BY <1>1, RestRight DEF SameMemory, Newest, Untouched
<1>2. ASSUME proc'[p] = Idle, UNCHANGED edits PROVE Right(p)
  BY <1>2, IdleFields, RestRight DEF Newest, Untouched, AwaitsSource, Moving
<1>3. ASSUME NEW call \in Calls, NEW d \in Dests, NEW t \in Trees,
             Called(p, call, <<<<d, t>>>>), Proper(p), proc[p].at \notin Moving,
             AwaitsSource(p)' => AwaitsSource(p)
      PROVE  Right(p)
  BY <1>3, OneJob, CalledRight
<1>4. ASSUME NEW call \in Calls, NEW d \in Dests, NEW t \in Trees, NEW e \in Dests, NEW u \in Trees,
             Called(p, call, <<<<d, t>>, <<e, u>>>>), Proper(p), proc[p].at \notin Moving,
             AwaitsSource(p)' => AwaitsSource(p), d # e
      PROVE  Right(p)
  BY <1>4, TwoJobs, CalledRight
<1>5. CASE ReadTrees(p)
  <2>1. /\ UNCHANGED <<tree, edits>> /\ At(p, "reading")
        /\ proc'[p].at \in {"rebased", "failing", "prepared"} /\ proc'[p].op = proc[p].op
        /\ proc'[p].current = Read(Src) /\ proc'[p].since = Newest
    BY <1>5, ReadTreesStep DEF ReadTrees, counters
  <2>2. Restores(p)' /\ Untouched(p)'
    BY <2>1 DEF Restores, Undoable, Moving, Untouched, Newest
  <2>3. Promotes(p)'
    BY <2>1, SameIsSame DEF Promotes, Read
  <2> QED BY <2>2, <2>3 DEF Right
<1>6. CASE ReplacePair(p)
  <2>1. /\ At(p, "prepared") /\ Base(proc[p].area) \in Dests /\ Overlay(proc[p].area) \in Dests
        /\ Base(proc[p].area) # Overlay(proc[p].area)
    BY <1>6, LockedFacts DEF ReplacePair, At, Locked
  <2>2. AwaitsSource(p)' => AwaitsSource(p)
    BY <1>6, <2>1, ReplacePairStep DEF AwaitsSource, At, Called
  <2> QED BY <1>4, <1>6, <2>1, <2>2, ReplacePairStep, Fields DEF At, Moving, Calls
<1>7. CASE Revert(p)
  <2>1. /\ At(p, "reverting") /\ Base(proc[p].area) \in Dests /\ Overlay(proc[p].area) \in Dests
        /\ Base(proc[p].area) # Overlay(proc[p].area)
    BY <1>7, LockedFacts DEF Revert, At, Locked
  <2>2. AwaitsSource(p)' => AwaitsSource(p)
    BY <1>7, <2>1, RevertStep DEF AwaitsSource, At, Called
  <2> QED BY <1>4, <1>7, <2>1, <2>2, RevertStep, Fields DEF At, Moving, Calls
<1>8. CASE Commit(p)
  <2>1. At(p, "committing") /\ UNCHANGED <<tree, edits>>
    BY <1>8 DEF Commit, counters
  <2> QED BY <1>1, <1>8, <2>1, CommitStep DEF AwaitsSource, At, Moving
<1>9. CASE CallFails(p)
  <2>1. proc[p].at \in {"prepared", "committing", "sourced"} /\ UNCHANGED <<tree, edits>>
    BY <1>9 DEF CallFails
  <2>2. /\ proc'[p].at \in {"failing", "reverting", "handling"} /\ proc'[p].op = proc[p].op
        /\ SameMemory(p) /\ (proc'[p].at = "reverting" => At(p, "committing"))
    BY <1>9, <2>1, CallFailsStep DEF At
  <2>3. AwaitsSource(p)' => AwaitsSource(p)
    BY <2>2 DEF AwaitsSource, At, Moving
  <2> QED BY <1>1, <2>1, <2>2, <2>3 DEF Moving
<1>10. CASE Finish(p)
  BY <1>2, <1>10, FinishStep DEF Finish, counters
<1>11. CASE LockPromotion(p)
  <2>1. UNCHANGED <<tree, edits>>
    BY <1>11 DEF LockPromotion, counters
  <2> QED BY <1>1, <1>11, <2>1, LockPromotionStep DEF AwaitsSource, At, Moving
<1>12. CASE ReplaceSource(p)
  <2>1. At(p, "rebased") /\ proc[p].op = "promote" /\ AwaitsSource(p) /\ Proper(p)
        /\ Overlay(proc[p].area) \in Dests
    BY <1>12, ReplaceSourceStep, LockedFacts DEF AwaitsSource, At, Locked
  <2>2. CASE proc'[p].at = "failing" /\ proc'[p].op = proc[p].op /\ Steady /\ SameMemory(p)
    BY <1>1, <2>1, <2>2 DEF Steady, counters, Moving
  <2>3. CASE Called(p, "source", <<<<Src, Read(Overlay(proc[p].area))>>>>)
    BY <1>3, <2>1, <2>3, ReadsAreTrees DEF Calls, At, Moving
  <2> QED BY <1>12, <2>2, <2>3, ReplaceSourceStep
<1>13. CASE ReplaceBase(p)
  <2>1. At(p, "sourced") /\ Base(proc[p].area) \in Dests /\ proc[p].overlay \in Trees
    BY <1>13, ReplaceBaseStep, LockedFacts, Fields DEF At, Locked
  <2>2. ~ AwaitsSource(p)'
    BY <1>13, ReplaceBaseStep DEF AwaitsSource, Called
  <2> QED BY <1>3, <1>13, <2>1, <2>2, ReplaceBaseStep DEF Calls, At, Moving
<1>14. CASE Handle(p)
  <2>1. At(p, "handling") /\ proc[p].before \in Trees /\ Proper(p)
    <3>1. At(p, "handling") /\ Proper(p)
      BY <1>14, HandleStep
    <3>2. proc[p].before # Absent /\ proc[p].before \in MaybeTree
      BY <3>1, Fields DEF Inv, Holds, Promoting, At
    <3> QED BY <3>1, <3>2 DEF MaybeTree
  <2>2. CASE proc'[p].at = "failing" /\ proc'[p].op = proc[p].op /\ Steady /\ SameMemory(p)
    BY <1>1, <2>1, <2>2 DEF Steady, counters, Moving, AwaitsSource, At
  <2>3. CASE Called(p, "sourceUndo", <<<<Src, proc[p].before>>>>)
    <3>1. ~ AwaitsSource(p)'
      BY <2>3 DEF AwaitsSource, Called
    <3> QED BY <1>3, <2>1, <2>3, <3>1 DEF Calls, At, Moving
  <2> QED BY <1>14, <2>2, <2>3, HandleStep
<1>15. CASE RecordPromotion(p)
  BY <1>2, <1>15, RecordPromotionStep DEF RecordPromotion, counters
<1> QED BY <1>5, <1>6, <1>7, <1>8, <1>9, <1>10, <1>11, <1>12, <1>13, <1>14, <1>15
        DEF RebaseLocked, PromoteTrees

LEMMA OthersRight ==
    ASSUME RestoreInv, "integration" \notin disturbed', disturbed \subseteq disturbed', NEW p \in Procs,
           CopyTree(p) \/ ImportTree(p) \/ WriteRecord(p) \/ IntegrateTrees(p) \/ Kill(p)
    PROVE  Right(p)
<1>0. /\ Inv /\ Types /\ Restores(p) /\ Promotes(p) /\ Untouched(p) /\ "integration" \notin disturbed
      /\ proc[p].since <= Newest /\ Newest \in Nat
  BY NewestIsNat DEF RestoreInv, Inv, Restores
<1> USE <1>0
<1>1. ASSUME proc'[p].since = proc[p].since, proc'[p].op = proc[p].op, UNCHANGED edits,
             proc'[p].at \in {"failing", "reading", "integrating", "copying", "importing", "applying"}
      PROVE  Right(p)
  BY <1>1, RestRight DEF Newest, Untouched, AwaitsSource, Moving, At
<1>2. ASSUME proc'[p] = Idle, UNCHANGED edits PROVE Right(p)
  BY <1>2, IdleFields, RestRight DEF Newest, Untouched, AwaitsSource, Moving
<1>3. CASE CopyTree(p)
  BY <1>1, <1>3, CopyTreeStep DEF counters, SameMemory, At
<1>4. CASE ImportTree(p)
  BY <1>1, <1>4, ImportTreeStep DEF counters, At
<1>5. CASE WriteRecord(p)
  BY <1>2, <1>5, WriteRecordStep DEF WriteRecord, counters
<1>6. CASE LockArea(p)
  BY <1>1, <1>6, LockAreaStep DEF LockArea, counters, SameMemory
<1>7. CASE Reconciled(p)
  BY <1>1, <1>7, ReconciledStep DEF Reconciled, counters, SameMemory
<1>8. CASE BackUp(p)
  BY <1>1, <1>8, BackUpStep DEF counters
<1>9. CASE Apply(p)
  BY <1>9, ApplyStep
<1>10. CASE NotAccepted(p)
  BY <1>10, NotAcceptedStep DEF Untouched
<1>11. CASE RemoveSource(p) \/ CopyBackup(p)
  BY <1>11, RemoveSourceStep, CopyBackupStep DEF Untouched, At
<1>12. CASE Kill(p)
  BY <1>2, <1>12, KillStep
<1> QED BY <1>3, <1>4, <1>5, <1>6, <1>7, <1>8, <1>9, <1>10, <1>11, <1>12 DEF IntegrateTrees

LEMMA StartRight ==
    ASSUME RestoreInv, NEW p \in Procs, NEW a \in Areas,
           Rebase(p, a) \/ Promote(p, a) \/ Integrate(p, a) \/ Create(p, a) \/ Migrate(p, a)
    PROVE  /\ Confined(p) /\ UNCHANGED <<edits, disturbed>>
           /\ "integration" \notin disturbed' => Right(p)
<1>1. Confined(p) /\ UNCHANGED <<edits, disturbed>>
  BY DEF Rebase, Promote, Integrate, Create, Migrate, Confined
<1>2. PICK o \in {"rebase", "promote", "create", "migrate", "reconcile"},
           at \in {"reading", "waiting", "copying", "importing", "entering"} :
         Started(p, o, a, at)
  BY DEF Rebase, Promote, Integrate, Create, Migrate
<1>3. proc'[p].at = at /\ proc'[p].op = o /\ proc'[p].since = 0 /\ Newest \in Nat
  <2>1. o \in Operations /\ at \in Phases /\ Types /\ Inv
    BY DEF Operations, Phases, RestoreInv, Inv
  <2> QED BY <1>2, <2>1, StartedStep, NewestIsNat
<1>4. "integration" \notin disturbed' => Right(p)
  BY <1>1, <1>3, RestRight DEF Untouched, AwaitsSource, Moving, At, Newest
<1> QED BY <1>1, <1>4

LEMMA RestoreStep == RestoreInv /\ [Next]_vars => RestoreInv'
<1> SUFFICES ASSUME RestoreInv, [Next]_vars PROVE RestoreInv'
  OBVIOUS
<1>0. Inv /\ Inv' /\ Newest \in Nat
  BY InvStep, NewestIsNat DEF RestoreInv
<1>1. CASE UNCHANGED vars
  <2>1. UNCHANGED <<tree, backups, proc, disturbed>> /\ Newest' = Newest
    BY <1>1 DEF vars, counters, Newest
  <2>2. ASSUME NEW q \in Procs, Untouched(q), Restores(q), Promotes(q)
        PROVE  Untouched(q)' /\ Restores(q)' /\ Promotes(q)'
    BY <1>0, <2>1, <2>2, RestoresOther, PromotesOther DEF Kept, Untouched
  <2> QED BY <1>0, <2>1, <2>2 DEF RestoreInv
<1>2. ASSUME NEW p \in Procs, NEW a \in Areas,
             Rebase(p, a) \/ Promote(p, a) \/ Integrate(p, a) \/ Create(p, a) \/ Migrate(p, a)
      PROVE  RestoreInv'
  <2>1. Proper(p)
    BY <1>0, <1>2, StartSteps
  <2> QED BY <1>2, <2>1, StartRight, RightStep
<1>3. ASSUME NEW p \in Procs, Works(p) \/ Kill(p) PROVE RestoreInv'
  <2>1. disturbed \subseteq disturbed'
    BY <1>3, DisturbedGrows
  <2>2. Proper(p)
    BY <1>0, <1>3, WorksStep, KillStep
  <2>3. "integration" \notin disturbed' => Right(p)
    BY <1>3, <2>1, CallsRight, RebasesRight, OthersRight DEF Works
  <2>4. Confined(p) /\ UNCHANGED edits
    BY <1>0, <1>3, ConfinedStep
  <2> QED BY <2>1, <2>2, <2>3, <2>4, RightStep
<1>4. ASSUME NEW e \in Edited, Edit(e[1], e[2]) PROVE RestoreInv'
  <2>1. /\ UNCHANGED <<backups, proc, disturbed>> /\ e[1] \in Dests /\ e[2] \in Paths
        /\ tree[e[1]] # Absent /\ edits' = edits + 1
        /\ tree'[e[1]] = [tree[e[1]] EXCEPT ![e[2]] = Newest + 1] /\ tree'[e[1]] \in Trees
        /\ \A d \in Dests : d # e[1] => tree'[d] = tree[d]
    BY <1>0, <1>4, EditStep, EditedTrees
  <2>2. Newest' = Newest + 1
    BY <1>0, <2>1, NumberedContents, BoundsAreNaturals DEF Newest, Inv, Types
  <2>3. \A d \in Dests : Kept(d)
    <3>1. tree[e[1]] \in Trees
      BY <1>0, <2>1, ReadsAreTrees DEF Inv
    <3>2. Newest + 1 # Missing
      <4>1. tree'[e[1]][e[2]] = Newest + 1 /\ edits < MaxEdits
        BY <1>4, <2>1, <3>1 DEF Trees, Edit
      <4>2. Newest + 1 \in Given + 1 .. Given + MaxEdits
        BY <1>0, <4>1, NumberedContents, BoundsAreNaturals DEF Newest, Inv, Types
      <4> QED BY <4>2, NumberedContents, MissingAssumption
    <3>3. Kept(e[1])
      BY <2>1, <3>1, <3>2, AbsentIsNoTree DEF Kept, Trees
    <3> QED BY <2>1, <3>3 DEF Kept
  <2>4. ASSUME NEW q \in Procs, Untouched(q), Restores(q), Promotes(q)
        PROVE  Untouched(q)' /\ Restores(q)' /\ Promotes(q)'
    <3>1. proc[q].at \in Moving => Own(q) \subseteq Dests
      BY <1>0, OwnFacts
    <3>2. Restores(q)' /\ Promotes(q)'
      BY <1>0, <2>1, <2>2, <2>3, <2>4, <3>1, RestoresOther, PromotesOther, DestinationsAreGiven
    <3> QED BY <2>1, <2>4, <3>2 DEF Untouched
  <2> QED BY <1>0, <2>1, <2>4 DEF RestoreInv
<1> QED BY <1>1, <1>2, <1>3, <1>4 DEF Next

LEMMA RestoreInvHolds == ReplacementSpec => []RestoreInv
<1>1. Init => RestoreInv
  <2> SUFFICES ASSUME Init PROVE RestoreInv
    OBVIOUS
  <2>1. Inv /\ Newest \in Nat
    BY InitInv, NewestIsNat
  <2>2. ASSUME NEW p \in Procs PROVE Untouched(p) /\ Restores(p) /\ Promotes(p)
    BY <2>1, IdleFields DEF Init, Untouched, Restores, Promotes, AwaitsSource, Undoable, Moving
  <2> QED BY <2>1, <2>2 DEF RestoreInv
<1> QED BY <1>1, RestoreStep, PTL DEF ReplacementSpec

\* _replace_trees is all or nothing (staging.py:94), for any trees, edits,
\* failures, kills and other operations: when its roll-back is over, every
\* destination is what it was before the call, or what edits have made of that.
\* Only an integration may have come between, at src/.
THEOREM FailuresAreUndone == ReplacementSpec => []FailedReplacementRestores
<1>1. RestoreInv => FailedReplacementRestores
  <2> SUFFICES ASSUME RestoreInv, NEW p \in Procs, Undone(p), "integration" \notin disturbed,
                      NEW d \in DOMAIN proc[p].original
               PROVE  Matches(p, d)
    BY DEF FailedReplacementRestores, Matches
  <2>1. Restores(p) /\ Installed(p) = {} /\ Saved(p) = {} /\ proc[p].at \in Moving
    BY EmptyElements DEF RestoreInv, Undone, Installed, Saved, At, Moving
  <2> QED BY <2>1 DEF Restores
<1> QED BY <1>1, RestoreInvHolds, PTL

\* A step of a process from one rename of a replacement to the next moves a tree away.
LEMMA OnlyMoveAway ==
    ASSUME Inv, NEW p \in Procs, [Next]_vars, At(p, "replacing"), At(p, "between")'
    PROVE  MoveAway(p)
<1>1. ASSUME NEW q \in Procs, q # p, proc'[p] = proc[p] PROVE FALSE
  BY <1>1 DEF At
<1>2. proc' # proc
  BY DEF At
<1>3. ASSUME NEW q \in Procs, NEW a \in Areas,
             Rebase(q, a) \/ Promote(q, a) \/ Integrate(q, a) \/ Create(q, a) \/ Migrate(q, a)
      PROVE  FALSE
  <2>1. Proper(q) /\ At(q, "idle")
    BY <1>3, StartSteps DEF Rebase, Promote, Integrate, Create, Migrate, Started
  <2> QED BY <2>1 DEF Proper, Others, At
<1>4. ASSUME NEW q \in Procs, Works(q) \/ Kill(q), q # p PROVE FALSE
  BY <1>4, WorksStep, KillStep DEF Proper, Others, At
<1>5. CASE Kill(p)
  BY <1>5, KillStep, IdleFields DEF At
<1>6. CASE ReplaceTrees(p)
  <2>1. CASE MoveIn(p) \/ RenameFails(p) \/ RemoveInstalled(p) \/ RestoreBackup(p)
    BY <2>1, MoveInStep, RenameFailsStep, RemoveInstalledStep, RestoreBackupStep DEF At
  <2>2. CASE RestoreFails(p) \/ Raise(p) \/ DropBackup(p) \/ Replaced(p)
    BY <2>2, RestoreFailsStep, RaiseStep, DropBackupStep, ReplacedStep DEF At, Exits
  <2> QED BY <1>6, <2>1, <2>2 DEF ReplaceTrees
<1>7. ~ (RebaseLocked(p) \/ CallFails(p) \/ Finish(p) \/ PromoteTrees(p))
  BY DEF RebaseLocked, CallFails, Finish, PromoteTrees, ReadTrees, ReplacePair, Commit, Revert,
         LockPromotion, ReplaceSource, ReplaceBase, Handle, RecordPromotion, At
<1>8. ~ (CopyTree(p) \/ ImportTree(p) \/ WriteRecord(p) \/ IntegrateTrees(p))
  BY DEF CopyTree, ImportTree, WriteRecord, IntegrateTrees, LockArea, Reconciled, BackUp, Apply,
         NotAccepted, RemoveSource, CopyBackup, At
<1>9. ASSUME NEW e \in Edited, Edit(e[1], e[2]) PROVE FALSE
  BY <1>2, <1>9 DEF Edit
<1> QED BY <1>2, <1>3, <1>4, <1>5, <1>6, <1>7, <1>8, <1>9 DEF Next, Works, vars

\* What a promotion takes away from src/ is what it has read and merged, or an edit
\* made since, for any number of areas and promotions: no promotion overwrites
\* another one unseen (the promotion lock of promote_staging).
THEOREM NoPromotionIsOverwritten == ReplacementSpec => PromotionOverwritesNoPromotion
<1>1. ASSUME RestoreInv, [Next]_vars, NEW p \in Procs, "integration" \notin disturbed,
             At(p, "replacing"), proc[p].call = "source", At(p, "between")'
      PROVE  SameButEdits(tree[Src], proc[p].current, proc[p].since)
  <2>1. Inv /\ Promotes(p)
    BY <1>1 DEF RestoreInv
  <2>2. MoveAway(p)
    BY <1>1, <2>1, OnlyMoveAway
  <2>3. proc[p].jobs # <<>> /\ tree[Target(p)] # Absent /\ Target(p) \in Pending(p)
    BY <2>1, <2>2, MoveAwayStep DEF MoveAway
  <2>4. Target(p) = Src
    BY <1>1, <2>1, <2>3, OwnFacts DEF At, Moving, Own, SourceCalls
  <2>5. proc[p].op = "promote"
    BY <1>1, <2>1 DEF Inv, Holds, Promoting, At, Moving
  <2> QED BY <1>1, <2>1, <2>3, <2>4, <2>5 DEF Promotes, AwaitsSource, Read
<1>2. RestoreInv /\ [Next]_vars =>
         [\A p \in Procs :
            ("integration" \notin disturbed /\ At(p, "replacing") /\ proc[p].call = "source"
                /\ At(p, "between")')
              => SameButEdits(tree[Src], proc[p].current, proc[p].since)]_vars
  BY <1>1
<1> QED BY <1>2, RestoreInvHolds, PTL DEF ReplacementSpec, PromotionOverwritesNoPromotion

----------------------------------------------------------------------------
(* No content is newer than the newest edit.                               *)

Numbered(t, n) == \A f \in Paths : t[f] # Missing => t[f] <= n
Aged(t, n) == t = Absent \/ Numbered(t, n)

Remembers(p) ==
    /\ Numbered(proc[p].base, Newest) /\ Numbered(proc[p].overlay, Newest)
    /\ Numbered(proc[p].current, Newest) /\ Aged(proc[p].before, Newest)
    /\ \A e \in Elements(backups[p]) \cup Elements(proc[p].jobs) : Numbered(e[2], Newest)

AgeInv ==
    Inv /\ (\A d \in Dests : Aged(tree[d], Newest)) /\ \A p \in Procs : Remembers(p)

\* Contents are numbers, and Missing is none.
LEMMA ContentsAreNumbers ==
    ASSUME NEW t \in Trees, NEW f \in Paths
    PROVE  t[f] = Missing \/ t[f] \in Nat
BY NumberedContents DEF Trees

LEMMA NumberedGrows ==
    ASSUME NEW t \in Trees, NEW m \in Nat, NEW n \in Nat, m <= n, Numbered(t, m)
    PROVE  Numbered(t, n)
BY ContentsAreNumbers DEF Numbered

LEMMA EmptyIsNumbered == \A n : Numbered(EmptyTree, n)
BY DEF Numbered, EmptyTree

LEMMA ReadIsNumbered ==
    ASSUME AgeInv, NEW d \in Dests
    PROVE  Numbered(Read(d), Newest)
BY EmptyIsNumbered DEF AgeInv, Read, Aged

LEMMA MergeIsNumbered ==
    ASSUME NEW base, NEW overlay, NEW current, NEW n,
           Numbered(overlay, n), Numbered(current, n)
    PROVE  Numbered(Merge(base, overlay, current), n)
BY DEF Numbered, Merge, Select

\* What a step of a process is shown to do.
Ages(p) == (\A d \in Dests : Aged(tree'[d], Newest)) /\ Remembers(p)' /\ UNCHANGED edits

LEMMA AgesStep ==
    ASSUME AgeInv, NEW p \in Procs, Proper(p), Ages(p)
    PROVE  AgeInv'
<1>1. Inv' /\ Newest' = Newest
  BY ProperStep DEF AgeInv, Ages, Newest
<1>2. ASSUME NEW q \in Procs, q # p PROVE Remembers(q)'
  <2>1. Remembers(q) /\ proc'[q] = proc[q] /\ backups'[q] = backups[q]
    BY <1>2 DEF AgeInv, Proper, Others, OthersBackups
  <2> QED BY <1>1, <2>1 DEF Remembers
<1> QED BY <1>1, <1>2 DEF AgeInv, Ages

\* Steps that keep in memory what was there.
LEMMA AgesKept ==
    ASSUME AgeInv, NEW p \in Procs, UNCHANGED edits, SameMemory(p),
           Elements(proc'[p].jobs) \subseteq Elements(proc[p].jobs),
           Elements(backups'[p]) \subseteq Elements(backups[p]),
           \A d \in Dests : Aged(tree'[d], Newest)
    PROVE  Ages(p)
<1>1. Remembers(p) /\ Newest' = Newest
  BY DEF AgeInv, Newest
<1> QED BY <1>1 DEF Ages, Remembers, SameMemory

\* Those to a phase in which nothing is replaced.
LEMMA AgesOutside ==
    ASSUME AgeInv, NEW p \in Procs, Proper(p), UNCHANGED edits, SameMemory(p),
           proc'[p].jobs = proc[p].jobs, proc'[p].at \notin Moving,
           \A d \in Dests : Aged(tree'[d], Newest)
    PROVE  Ages(p)
<1>1. backups'[p] = <<>>
  BY DEF Proper, Orderly
<1> QED BY <1>1, EmptyElements, AgesKept

LEMMA AgesAtRest ==
    ASSUME AgeInv, NEW p \in Procs, Proper(p), UNCHANGED edits,
           proc'[p].base = EmptyTree, proc'[p].overlay = EmptyTree, proc'[p].current = EmptyTree,
           proc'[p].before = Absent, proc'[p].jobs = <<>>, proc'[p].at \notin Moving,
           \A d \in Dests : Aged(tree'[d], Newest)
    PROVE  Ages(p)
<1>1. backups'[p] = <<>>
  BY DEF Proper, Orderly
<1>2. Elements(backups'[p]) = {} /\ Elements(proc'[p].jobs) = {}
  BY <1>1, EmptyElements
<1> QED BY <1>2, EmptyIsNumbered DEF Ages, Remembers, Aged

LEMMA AgesIdle ==
    ASSUME AgeInv, NEW p \in Procs, Proper(p), UNCHANGED edits, proc'[p] = Idle,
           \A d \in Dests : Aged(tree'[d], Newest)
    PROVE  Ages(p)
BY AgesAtRest, IdleFields DEF Moving

LEMMA AgesCalled ==
    ASSUME AgeInv, NEW p \in Procs, Proper(p), proc[p].at \notin Moving,
           NEW call, NEW jobs, Called(p, call, jobs),
           Numbered(proc'[p].overlay, Newest), Aged(proc'[p].before, Newest),
           \A e \in Elements(jobs) : Numbered(e[2], Newest)
    PROVE  Ages(p)
<1>1. /\ UNCHANGED <<tree, backups, edits>> /\ backups[p] = <<>> /\ Newest' = Newest
      /\ proc'[p].jobs = jobs /\ proc'[p].base = proc[p].base /\ proc'[p].current = proc[p].current
  BY DEF AgeInv, Inv, Orderly, Called, Steady, counters, Newest
<1>2. Elements(backups'[p]) = {}
  BY <1>1, EmptyElements
<1> QED BY <1>1, <1>2 DEF Ages, AgeInv, Remembers

LEMMA AgesMoving ==
    ASSUME AgeInv, NEW p \in Procs, ReplaceTrees(p)
    PROVE  Ages(p)
<1>0. /\ Inv /\ Remembers(p) /\ \A d \in Dests : Aged(tree[d], Newest)
  BY DEF AgeInv
<1> USE <1>0
<1>1. CASE MoveAway(p)
  <2>1. /\ UNCHANGED edits /\ Newest' = Newest /\ SameMemory(p) /\ proc'[p].jobs = proc[p].jobs
        /\ Target(p) \in Dests /\ tree[Target(p)] # Absent /\ tree'[Target(p)] = Absent
        /\ \A d \in Dests : d # Target(p) => tree'[d] = tree[d]
        /\ Elements(backups'[p]) = Elements(backups[p]) \cup {<<Target(p), tree[Target(p)]>>}
    BY <1>1, MoveAwayStep, AbsentIsNoTree DEF MovingFrame, SameCall, Newest
  <2>2. Numbered(tree[Target(p)], Newest)
    BY <2>1 DEF Aged
  <2>3. \A d \in Dests : Aged(tree'[d], Newest)
    BY <2>1 DEF Aged
  <2> QED BY <2>1, <2>2, <2>3 DEF Ages, Remembers, SameMemory
<1>2. CASE MoveIn(p)
  <2>1. /\ UNCHANGED edits /\ SameMemory(p)
        /\ Elements(proc[p].jobs) = Elements(proc'[p].jobs) \cup {proc[p].jobs[1]}
        /\ tree'[Target(p)] = proc[p].jobs[1][2] /\ UNCHANGED backups
        /\ \A d \in Dests : d # Target(p) => tree'[d] = tree[d]
    BY <1>2, MoveInStep DEF MovingFrame
  <2>2. Numbered(proc[p].jobs[1][2], Newest)
    BY <2>1 DEF Remembers
  <2>3. \A d \in Dests : Aged(tree'[d], Newest)
    BY <2>1, <2>2 DEF Aged
  <2> QED BY <2>1, <2>3, AgesKept
<1>3. CASE RenameFails(p)
  BY <1>3, RenameFailsStep, AgesKept DEF MovingFrame, SameCall
<1>4. CASE RemoveInstalled(p)
  <2>1. /\ UNCHANGED <<edits, backups>> /\ SameMemory(p) /\ proc'[p].jobs = proc[p].jobs
    BY <1>4, RemoveInstalledStep DEF MovingFrame
  <2>2. \A d \in Dests : Aged(tree'[d], Newest)
    BY <1>4, RemoveInstalledStep DEF Aged
  <2> QED BY <2>1, <2>2, AgesKept
<1>5. CASE RestoreBackup(p)
  <2>1. UNCHANGED <<edits, proc>> /\ SameMemory(p)
    BY <1>5, RestoreBackupStep DEF MovingFrame, SameMemory
  <2>2. PICK e \in Pairs : /\ tree'[e[1]] = e[2] /\ \A d \in Dests : d # e[1] => tree'[d] = tree[d]
                           /\ Elements(backups[p]) = {e} \cup Elements(backups'[p])
    BY <1>5, RestoreBackupStep
  <2>3. Numbered(e[2], Newest)
    BY <2>2 DEF Remembers
  <2>4. \A d \in Dests : Aged(tree'[d], Newest)
    BY <2>2, <2>3 DEF Aged
  <2> QED BY <2>1, <2>2, <2>4, AgesKept
<1>6. CASE RestoreFails(p)
  BY <1>6, RestoreFailsStep, AgesOutside DEF Exits, Moving, SameCall, counters
<1>7. CASE Raise(p)
  BY <1>7, RaiseStep, AgesOutside DEF Exits, Moving, SameCall, counters
<1>8. CASE DropBackup(p)
  <2>1. SameMemory(p)
    BY <1>8, DropBackupStep DEF SameMemory
  <2> QED BY <1>8, <2>1, DropBackupStep, AgesKept DEF MovingFrame
<1>9. CASE Replaced(p)
  BY <1>9, ReplacedStep, AgesOutside DEF Exits, Moving, SameCall, counters
<1> QED BY <1>1, <1>2, <1>3, <1>4, <1>5, <1>6, <1>7, <1>8, <1>9 DEF ReplaceTrees

LEMMA AgesLocked ==
    ASSUME AgeInv, NEW p \in Procs,
           RebaseLocked(p) \/ CallFails(p) \/ Finish(p) \/ PromoteTrees(p)
    PROVE  Ages(p)
<1>0. /\ Inv /\ Types /\ Remembers(p) /\ Src \in Dests
      /\ \A d \in Dests : Aged(tree[d], Newest)
  BY DestinationsAreGiven DEF AgeInv, Inv
<1> USE <1>0
<1>1. ASSUME SameMemory(p), proc'[p].jobs = proc[p].jobs, UNCHANGED <<tree, edits>>, Proper(p),
             proc'[p].at \notin Moving
      PROVE  Ages(p)
  BY <1>1, AgesOutside
<1>2. ASSUME proc'[p] = Idle, Proper(p), UNCHANGED <<tree, edits>> PROVE Ages(p)
  BY <1>2, AgesIdle
<1>3. ASSUME NEW call \in Calls, NEW d \in Dests, NEW t \in Trees, Numbered(t, Newest),
             Called(p, call, <<<<d, t>>>>), Proper(p), proc[p].at \notin Moving,
             Numbered(proc'[p].overlay, Newest), Aged(proc'[p].before, Newest)
      PROVE  Ages(p)
  <2>1. \A e \in Elements(<<<<d, t>>>>) : Numbered(e[2], Newest)
    BY <1>3, OneJob
  <2> QED BY <1>3, <2>1, AgesCalled
<1>4. ASSUME NEW call \in Calls, NEW d \in Dests, NEW t \in Trees, NEW e \in Dests, NEW u \in Trees,
             Numbered(t, Newest), Numbered(u, Newest), d # e,
             Called(p, call, <<<<d, t>>, <<e, u>>>>), Proper(p), proc[p].at \notin Moving,
             Numbered(proc'[p].overlay, Newest), Aged(proc'[p].before, Newest)
      PROVE  Ages(p)
  <2>1. \A x \in Elements(<<<<d, t>>, <<e, u>>>>) : Numbered(x[2], Newest)
    BY <1>4, TwoJobs
  <2> QED BY <1>4, <2>1, AgesCalled
<1>5. CASE ReadTrees(p)
  <2>1. /\ UNCHANGED <<tree, edits>> /\ Newest' = Newest /\ At(p, "reading")
        /\ proc'[p].base = Read(Base(proc[p].area)) /\ proc'[p].overlay = Read(Overlay(proc[p].area))
        /\ proc'[p].current = Read(Src) /\ proc'[p].before = proc[p].before
        /\ proc'[p].at \notin Moving /\ proc'[p].jobs = proc[p].jobs /\ Proper(p)
    BY <1>5, ReadTreesStep DEF ReadTrees, counters, Newest, Moving
  <2>2. Base(proc[p].area) \in Dests /\ Overlay(proc[p].area) \in Dests
    BY <2>1, LockedFacts DEF At, Locked
  <2>3. Elements(backups'[p]) = {}
    BY <2>1, EmptyElements DEF Proper, Orderly
  <2>4. /\ Numbered(proc'[p].base, Newest) /\ Numbered(proc'[p].overlay, Newest)
        /\ Numbered(proc'[p].current, Newest)
    BY <2>1, <2>2, ReadIsNumbered
  <2> QED BY <2>1, <2>3, <2>4 DEF Ages, Remembers
<1>6. CASE ReplacePair(p)
  <2>1. /\ At(p, "prepared") /\ Base(proc[p].area) \in Dests /\ Overlay(proc[p].area) \in Dests
        /\ Base(proc[p].area) # Overlay(proc[p].area)
    BY <1>6, LockedFacts DEF ReplacePair, At, Locked
  <2>2. Numbered(Merge(proc[p].base, proc[p].overlay, proc[p].current), Newest)
    BY MergeIsNumbered DEF Remembers
  <2>3. Numbered(proc'[p].overlay, Newest) /\ Aged(proc'[p].before, Newest)
    BY <1>6, ReplacePairStep DEF Remembers
  <2> QED BY <1>4, <1>6, <2>1, <2>2, <2>3, ReplacePairStep, Fields DEF At, Moving, Calls, Remembers
<1>7. CASE Revert(p)
  <2>1. /\ At(p, "reverting") /\ Base(proc[p].area) \in Dests /\ Overlay(proc[p].area) \in Dests
        /\ Base(proc[p].area) # Overlay(proc[p].area)
    BY <1>7, LockedFacts DEF Revert, At, Locked
  <2>2. Numbered(proc'[p].overlay, Newest) /\ Aged(proc'[p].before, Newest)
    BY <1>7, RevertStep DEF Remembers
  <2> QED BY <1>4, <1>7, <2>1, <2>2, RevertStep, Fields DEF At, Moving, Calls, Remembers
<1>8. CASE Commit(p)
  BY <1>1, <1>8, CommitStep DEF Commit, counters, SameCall, Moving
<1>9. CASE CallFails(p)
  <2>1. proc[p].at \in {"prepared", "committing", "sourced"} /\ UNCHANGED <<tree, edits>>
    BY <1>9 DEF CallFails
  <2> QED BY <1>1, <1>9, <2>1, CallFailsStep DEF At, SameCall, Moving
<1>10. CASE Finish(p)
  BY <1>2, <1>10, FinishStep DEF Finish, counters
<1>11. CASE LockPromotion(p)
  BY <1>1, <1>11, LockPromotionStep DEF LockPromotion, counters, SameCall, Moving
<1>12. CASE ReplaceSource(p)
  <2>1. At(p, "rebased") /\ Proper(p) /\ Overlay(proc[p].area) \in Dests
    BY <1>12, ReplaceSourceStep, LockedFacts DEF At, Locked
  <2>2. CASE proc'[p].at = "failing" /\ Steady /\ SameMemory(p) /\ SameCall(p)
    BY <1>1, <2>1, <2>2 DEF Steady, counters, Moving, SameCall
  <2>3. CASE /\ Called(p, "source", <<<<Src, Read(Overlay(proc[p].area))>>>>)
             /\ proc'[p].overlay = Read(Overlay(proc[p].area))
             /\ proc'[p].before = Read(Src)
    <3>1. /\ Numbered(Read(Overlay(proc[p].area)), Newest) /\ Aged(Read(Src), Newest)
          /\ Read(Overlay(proc[p].area)) \in Trees
      BY <2>1, ReadIsNumbered, ReadsAreTrees DEF Aged
    <3> QED BY <1>3, <2>1, <2>3, <3>1 DEF Calls, At, Moving
  <2> QED BY <1>12, <2>2, <2>3, ReplaceSourceStep
<1>13. CASE ReplaceBase(p)
  <2>1. At(p, "sourced") /\ Base(proc[p].area) \in Dests /\ proc[p].overlay \in Trees
    BY <1>13, ReplaceBaseStep, LockedFacts, Fields DEF At, Locked
  <2>2. Numbered(proc'[p].overlay, Newest) /\ Aged(proc'[p].before, Newest)
    BY <1>13, ReplaceBaseStep DEF Remembers
  <2> QED BY <1>3, <1>13, <2>1, <2>2, ReplaceBaseStep DEF Calls, At, Moving, Remembers
<1>14. CASE Handle(p)
  <2>1. /\ At(p, "handling") /\ proc[p].before \in Trees /\ Proper(p)
        /\ Numbered(proc[p].before, Newest)
    <3>1. At(p, "handling") /\ Proper(p)
      BY <1>14, HandleStep
    <3>2. proc[p].before # Absent /\ proc[p].before \in MaybeTree
      BY <3>1, Fields DEF Inv, Holds, Promoting, At
    <3> QED BY <3>1, <3>2 DEF MaybeTree, Remembers, Aged
  <2>2. CASE proc'[p].at = "failing" /\ Steady /\ SameMemory(p) /\ SameCall(p)
    BY <1>1, <2>1, <2>2 DEF Steady, counters, Moving, SameCall
  <2>3. CASE /\ Called(p, "sourceUndo", <<<<Src, proc[p].before>>>>)
             /\ proc'[p].overlay = proc[p].overlay /\ proc'[p].before = proc[p].before
    <3>1. Numbered(proc'[p].overlay, Newest) /\ Aged(proc'[p].before, Newest)
      BY <2>3 DEF Remembers
    <3> QED BY <1>3, <2>1, <2>3, <3>1 DEF Calls, At, Moving
  <2> QED BY <1>14, <2>2, <2>3, HandleStep
<1>15. CASE RecordPromotion(p)
  BY <1>2, <1>15, RecordPromotionStep DEF RecordPromotion, counters
<1> QED BY <1>5, <1>6, <1>7, <1>8, <1>9, <1>10, <1>11, <1>12, <1>13, <1>14, <1>15
        DEF RebaseLocked, PromoteTrees

LEMMA AgesElsewhere ==
    ASSUME AgeInv, NEW p \in Procs,
           CopyTree(p) \/ ImportTree(p) \/ WriteRecord(p) \/ IntegrateTrees(p) \/ Kill(p)
    PROVE  Ages(p)
<1>0. /\ Inv /\ Types /\ Remembers(p) /\ Src \in Dests
      /\ \A d \in Dests : Aged(tree[d], Newest)
  BY DestinationsAreGiven DEF AgeInv, Inv
<1> USE <1>0
<1>1. ASSUME SameMemory(p), proc'[p].jobs = proc[p].jobs, UNCHANGED edits, Proper(p),
             proc'[p].at \notin Moving, \A d \in Dests : Aged(tree'[d], Newest)
      PROVE  Ages(p)
  BY <1>1, AgesOutside
<1>2. ASSUME proc'[p] = Idle, Proper(p), UNCHANGED edits, \A d \in Dests : Aged(tree'[d], Newest)
      PROVE  Ages(p)
  BY <1>2, AgesIdle
<1>3. CASE CopyTree(p)
  <2>1. /\ Proper(p) /\ UNCHANGED edits /\ SameMemory(p) /\ proc'[p].jobs = proc[p].jobs
        /\ proc'[p].at \notin Moving
    BY <1>3, CopyTreeStep DEF SameCall, SameMemory, counters, At, Moving
  <2>2. \A d \in Dests : Aged(tree'[d], Newest)
    BY <1>3, CopyTreeStep
  <2> QED BY <1>1, <2>1, <2>2
<1>4. CASE ImportTree(p)
  <2>1. /\ Proper(p) /\ UNCHANGED edits /\ SameMemory(p) /\ proc'[p].jobs = proc[p].jobs
        /\ proc'[p].at \notin Moving
    BY <1>4, ImportTreeStep DEF SameMemory, counters, At, Moving
  <2>2. \A t \in {LegacyWork, LegacyRoot} : Numbered(t, Newest)
    <3>1. Given \in Nat /\ Newest \in Nat /\ Given <= Newest
      BY NumberedContents DEF Newest, Types
    <3>2. \A t \in {LegacyWork, LegacyRoot} : \A f \in Paths : t[f] \in 0 .. Given \cup {Missing}
      BY TreesAreGiven
    <3> QED BY <3>1, <3>2 DEF Numbered
  <2>3. \A d \in Dests : Aged(tree'[d], Newest)
    BY <1>4, <2>2, ImportTreeStep DEF Aged
  <2> QED BY <1>1, <2>1, <2>3
<1>5. CASE WriteRecord(p)
  BY <1>2, <1>5, WriteRecordStep DEF WriteRecord, counters
<1>6. CASE LockArea(p)
  BY <1>1, <1>6, LockAreaStep DEF LockArea, counters, SameCall, Moving
<1>7. CASE Reconciled(p)
  BY <1>1, <1>7, ReconciledStep DEF Reconciled, counters, SameCall, Moving
<1>8. CASE BackUp(p)
  <2>1. /\ Proper(p) /\ UNCHANGED <<tree, edits>> /\ proc'[p].jobs = proc[p].jobs /\ Newest' = Newest
        /\ proc'[p].at \notin Moving
        /\ proc'[p].base = proc[p].base /\ proc'[p].overlay = proc[p].overlay
        /\ proc'[p].current = proc[p].current /\ proc'[p].before \in {proc[p].before, tree[Src]}
    BY <1>8, BackUpStep DEF SameCall, counters, Moving, Newest
  <2>2. Elements(backups'[p]) = {}
    BY <2>1, EmptyElements DEF Proper, Orderly
  <2> QED BY <2>1, <2>2 DEF Ages, Remembers
<1>9. CASE Apply(p)
  <2>1. /\ Proper(p) /\ UNCHANGED edits /\ OnlySource /\ SameMemory(p) /\ proc'[p].at \notin Moving
        /\ proc'[p].jobs = proc[p].jobs /\ Overlay(proc[p].area) \in Dests
    BY <1>9, ApplyStep, DestinationsAreGiven DEF SameCall, Moving
  <2>2. Numbered(Read(Src), Newest) /\ Aged(tree[Overlay(proc[p].area)], Newest)
    BY <2>1, ReadIsNumbered
  <2>3. Aged(tree'[Src], Newest)
    BY <1>9, <2>2, ApplyStep DEF Aged, Numbered
  <2> QED BY <1>1, <2>1, <2>3 DEF OnlySource
<1>10. CASE NotAccepted(p)
  BY <1>1, <1>10, NotAcceptedStep DEF NotAccepted, counters, SameCall, Moving
<1>11. CASE RemoveSource(p)
  <2>1. \A d \in Dests : Aged(tree'[d], Newest)
    BY <1>11, RemoveSourceStep DEF OnlySource, Aged
  <2> QED BY <1>1, <1>11, <2>1, RemoveSourceStep DEF SameCall, Moving, counters
<1>12. CASE CopyBackup(p)
  <2>1. \A d \in Dests : Aged(tree'[d], Newest)
    BY <1>12, CopyBackupStep DEF OnlySource, Remembers
  <2> QED BY <1>2, <1>12, <2>1, CopyBackupStep DEF counters
<1>13. CASE Kill(p)
  BY <1>2, <1>13, KillStep
<1> QED BY <1>3, <1>4, <1>5, <1>6, <1>7, <1>8, <1>9, <1>10, <1>11, <1>12, <1>13 DEF IntegrateTrees

LEMMA AgesStart ==
    ASSUME AgeInv, NEW p \in Procs, NEW a \in Areas,
           Rebase(p, a) \/ Promote(p, a) \/ Integrate(p, a) \/ Create(p, a) \/ Migrate(p, a)
    PROVE  Ages(p)
<1>1. PICK o \in {"rebase", "promote", "create", "migrate", "reconcile"},
           at \in {"reading", "waiting", "copying", "importing", "entering"} :
         Started(p, o, a, at)
  BY DEF Rebase, Promote, Integrate, Create, Migrate
<1>2. o \in Operations /\ at \in Phases \ Moving /\ Types /\ Inv
  BY DEF Operations, Phases, AgeInv, Inv, Moving
<1>3. /\ proc'[p].at = at /\ proc'[p].jobs = <<>> /\ proc'[p].before = Absent
      /\ proc'[p].base = EmptyTree /\ proc'[p].overlay = EmptyTree
      /\ proc'[p].current = EmptyTree
  BY <1>1, <1>2, StartedStep
<1>4. UNCHANGED <<tree, edits>> /\ \A d \in Dests : Aged(tree[d], Newest)
  BY DEF Rebase, Promote, Integrate, Create, Migrate, AgeInv
<1>5. Proper(p)
  BY <1>2, StartSteps
<1> QED BY <1>2, <1>3, <1>4, <1>5, AgesAtRest

LEMMA AgesOfWorks ==
    ASSUME AgeInv, NEW p \in Procs, Works(p) \/ Kill(p)
    PROVE  Ages(p)
BY AgesMoving, AgesLocked, AgesElsewhere DEF Works

LEMMA EditAges ==
    ASSUME AgeInv, NEW e \in Edited, Edit(e[1], e[2])
    PROVE  /\ AgeInv' /\ Newest' = Newest + 1 /\ e[2] \in Paths
           /\ tree[e[1]] \in Trees /\ Newest + 1 # Missing
<1>1. /\ Inv' /\ UNCHANGED <<backups, proc>> /\ e[1] \in Dests /\ e[2] \in Paths
      /\ tree[e[1]] # Absent /\ edits' = edits + 1
      /\ tree'[e[1]] = [tree[e[1]] EXCEPT ![e[2]] = Newest + 1]
      /\ \A d \in Dests : d # e[1] => tree'[d] = tree[d]
  BY EditStep, EditedTrees DEF AgeInv
<1>2. Newest \in Nat /\ Newest' = Newest + 1 /\ Newest' \in Nat /\ Newest <= Newest'
  <2>1. Given \in Nat /\ edits \in Nat
    BY NumberedContents, BoundsAreNaturals DEF AgeInv, Inv, Types
  <2> QED BY <1>1, <2>1 DEF Newest
<1>3. tree[e[1]] \in Trees
  BY <1>1, ReadsAreTrees DEF AgeInv, Inv
<1>7. Newest + 1 # Missing
  <2>1. edits < MaxEdits /\ Given \in Nat /\ edits \in Nat /\ MaxEdits \in Nat
    BY NumberedContents, BoundsAreNaturals DEF AgeInv, Inv, Types, Edit
  <2>2. Newest + 1 \in Given + 1 .. Given + MaxEdits
    BY <2>1 DEF Newest
  <2> QED BY <2>2, NumberedContents, MissingAssumption
<1>4. \A t \in Trees : Numbered(t, Newest) => Numbered(t, Newest')
  BY <1>2, NumberedGrows
<1>5. ASSUME NEW p \in Procs PROVE Remembers(p)'
  <2>1. /\ Remembers(p) /\ proc[p].base \in Trees /\ proc[p].overlay \in Trees
        /\ proc[p].current \in Trees /\ proc[p].before \in MaybeTree
        /\ proc[p].jobs \in Seq(Pairs) /\ backups[p] \in Seq(Pairs)
    BY Fields DEF AgeInv, Inv
  <2>2. \A x \in Elements(backups[p]) \cup Elements(proc[p].jobs) : x[2] \in Trees
    <3>1. /\ \A i \in DOMAIN backups[p] : backups[p][i] \in Pairs
          /\ \A i \in DOMAIN proc[p].jobs : proc[p].jobs[i] \in Pairs
      BY <2>1, ElementOfSeq
    <3> QED BY <3>1 DEF Elements, Pairs
  <2>3. Aged(proc[p].before, Newest')
    BY <1>4, <2>1 DEF Remembers, Aged, MaybeTree
  <2>4. \A x \in Elements(backups[p]) \cup Elements(proc[p].jobs) : Numbered(x[2], Newest')
    BY <1>4, <2>1, <2>2 DEF Remembers
  <2>5. /\ Numbered(proc[p].base, Newest') /\ Numbered(proc[p].overlay, Newest')
        /\ Numbered(proc[p].current, Newest')
    BY <1>4, <2>1 DEF Remembers
  <2> QED BY <1>1, <2>3, <2>4, <2>5 DEF Remembers
<1>6. ASSUME NEW d \in Dests PROVE Aged(tree'[d], Newest')
  <2>1. Aged(tree[d], Newest) /\ tree[d] \in MaybeTree
    BY DEF AgeInv, Inv, Types
  <2>2. Aged(tree[d], Newest')
    BY <1>4, <2>1 DEF Aged, MaybeTree
  <2>3. CASE d = e[1]
    <3>1. Numbered(tree[d], Newest')
      BY <1>1, <2>2, <2>3 DEF Aged
    <3>2. Numbered(tree'[d], Newest')
      BY <1>1, <1>2, <1>3, <2>3, <3>1 DEF Numbered, Trees
    <3> QED BY <3>2 DEF Aged
  <2> QED BY <1>1, <2>2, <2>3
<1> QED BY <1>1, <1>2, <1>3, <1>5, <1>6, <1>7 DEF AgeInv

LEMMA InitAges == Init => AgeInv
<1> SUFFICES ASSUME Init PROVE AgeInv
  OBVIOUS
<1>1. Inv /\ Newest \in Nat
  BY InitInv, NewestIsNat
<1>2. Numbered(InitialSource, Newest)
  <2>1. Given \in Nat /\ Given <= Newest /\ \A f \in Paths : InitialSource[f] \in 0 .. Given \cup {Missing}
    BY NumberedContents, TreesAreGiven DEF Newest, Init
  <2> QED BY <1>1, <2>1 DEF Numbered
<1>3. \A d \in Dests : Aged(tree[d], Newest)
  BY <1>2 DEF Init, Aged
<1>4. ASSUME NEW p \in Procs PROVE Remembers(p)
  BY IdleFields, EmptyElements, EmptyIsNumbered DEF Init, Remembers, Aged
<1> QED BY <1>1, <1>3, <1>4 DEF AgeInv

----------------------------------------------------------------------------
(* Nothing old comes back.                                                 *)

\* The second tree has every file of the first one, and none with an older content.
Ordered(one, other) ==
    \A f \in Paths : one[f] # Missing => other[f] # Missing /\ other[f] >= one[f]

LEMMA OrderedSelf == \A t \in Trees : Ordered(t, t)
BY ContentsAreNumbers DEF Ordered

\* A merge puts nothing older than what is in src/ into an overlay.
LEMMA MergeOrdered ==
    ASSUME NEW base \in Trees, NEW overlay \in Trees, NEW current \in Trees,
           Conflicts(base, overlay, current) = {}, Ordered(base, overlay)
    PROVE  Ordered(current, Merge(base, overlay, current))
<1> SUFFICES ASSUME NEW f \in Paths, current[f] # Missing
             PROVE  /\ Merge(base, overlay, current)[f] # Missing
                    /\ Merge(base, overlay, current)[f] >= current[f]
  BY DEF Ordered
<1>1. /\ overlay[f] = base[f] => Merge(base, overlay, current)[f] = current[f]
      /\ overlay[f] # base[f] => Merge(base, overlay, current)[f] = overlay[f]
  BY MergeKeepsBothSides
<1>2. overlay[f] = base[f] \/ current[f] = base[f] \/ overlay[f] = current[f]
  BY DEF Conflicts, Clashes
<1>3. current[f] \in Nat
  BY ContentsAreNumbers
<1>4. base[f] # Missing => overlay[f] # Missing /\ overlay[f] >= base[f]
  BY DEF Ordered
<1> QED BY <1>1, <1>2, <1>3, <1>4

LEMMA EditOrdered ==
    ASSUME NEW t \in Trees, NEW u \in Trees, NEW f \in Paths, NEW n \in Nat, n + 1 # Missing,
           Numbered(t, n), Ordered(t, u)
    PROVE  Ordered(t, [u EXCEPT ![f] = n + 1])
<1> SUFFICES ASSUME NEW g \in Paths, t[g] # Missing
             PROVE  /\ [u EXCEPT ![f] = n + 1][g] # Missing
                    /\ [u EXCEPT ![f] = n + 1][g] >= t[g]
  BY DEF Ordered
<1>1. t[g] \in Nat /\ t[g] <= n /\ u[g] # Missing /\ u[g] >= t[g]
  BY ContentsAreNumbers DEF Numbered, Ordered
<1> QED BY <1>1 DEF Trees

Quiet(a) == /\ tree[Base(a)] # Absent /\ tree[Overlay(a)] # Absent
            /\ Ordered(tree[Base(a)], tree[Overlay(a)])

\* The process is replacing trees of an area, of the area a.
Swaps(p) == proc[p].at \in Moving /\ proc[p].call \notin SourceCalls
Moves(p, a) == Swaps(p) /\ proc[p].area = a
Makes(p) == proc[p].at \in {"copying", "importing"}

\* The tree that was in the place d before the call, and the one that will be.
Was(p, d, t) == \/ <<d, t>> \in Elements(backups[p])
                \/ d \notin Saved(p) \cup Installed(p) /\ tree[d] = t
Will(p, d, t) == \/ <<d, t>> \in Elements(proc[p].jobs)
                 \/ d \notin Pending(p) /\ tree[d] = t

WasOrdered(p) ==
    \A t, u \in Trees : Was(p, Base(proc[p].area), t) /\ Was(p, Overlay(proc[p].area), u)
                           => Ordered(t, u)
WillOrdered(p) ==
    \A t, u \in Trees : Will(p, Base(proc[p].area), t) /\ Will(p, Overlay(proc[p].area), u)
                           => Ordered(t, u)

\* A call that replaces trees of an area has them in order before and after.
Swapping(p) ==
    LET pair == {Base(proc[p].area), Overlay(proc[p].area)}
    IN  /\ \A d \in pair : d \in Saved(p) \/ d \in Installed(p) \/ tree[d] # Absent
        /\ proc[p].at \in {"replacing", "between"} =>
              WillOrdered(p) /\ \A d \in pair : d \in Installed(p) => tree[d] # Absent
        /\ Undoable(p) => WasOrdered(p) /\ Installed(p) \subseteq Saved(p)
        /\ proc[p].at \in {"between", "undoing"} =>
              \A d \in pair : d \in Saved(p) /\ d \notin Installed(p) => tree[d] = Absent

\* What a rebase has read is in order, and so is what a promotion will make the base.
ReadInOrder(p) ==
    \/ proc[p].at \in {"prepared", "committing", "reverting"}
    \/ proc[p].at \in Moving /\ proc[p].call = "rebase"
PromotedInOrder(p) == At(p, "sourced") \/ (proc[p].at \in Moving /\ proc[p].call = "source")

Orders(p) ==
    proc[p].area \in Existing =>
        /\ ReadInOrder(p) => Ordered(proc[p].base, proc[p].overlay)
        /\ PromotedInOrder(p) => /\ tree[Overlay(proc[p].area)] # Absent
                                 /\ Ordered(proc[p].overlay, tree[Overlay(proc[p].area)])
        /\ Swaps(p) => Swapping(p)

Decided(p) ==
    /\ At(p, "prepared") => Conflicts(proc[p].base, proc[p].overlay, proc[p].current) = {}
    /\ Makes(p) => proc[p].area \notin Existing

OrderInv ==
    /\ AgeInv /\ \A a \in Existing : Readable(a)
    /\ \/ "kill" \in disturbed
       \/ /\ \A a \in Existing : Quiet(a) \/ \E p \in Procs : Moves(p, a)
          /\ \A p \in Procs : Orders(p) /\ Decided(p)

\* The trees of an area stay, or its overlay is edited.
Grows(a) ==
    /\ tree'[Base(a)] = tree[Base(a)]
    /\ tree'[Overlay(a)] = Absent <=> tree[Overlay(a)] = Absent
    /\ \A t \in Trees : (Numbered(t, Newest) /\ tree[Overlay(a)] # Absent
                            /\ Ordered(t, tree[Overlay(a)])) => Ordered(t, tree'[Overlay(a)])

LEMMA WasNumbered ==
    ASSUME AgeInv, NEW p \in Procs, NEW d \in Dests, NEW t \in Trees, Was(p, d, t) \/ Will(p, d, t)
    PROVE  Numbered(t, Newest)
<1>1. \A e \in Elements(backups[p]) \cup Elements(proc[p].jobs) : Numbered(e[2], Newest)
  BY DEF AgeInv, Remembers
<1>2. CASE <<d, t>> \in Elements(backups[p]) \cup Elements(proc[p].jobs)
  BY <1>1, <1>2
<1>3. CASE tree[d] = t
  BY <1>3, AbsentIsNoTree DEF AgeInv, Aged
<1> QED BY <1>2, <1>3 DEF Was, Will

\* Another process finds its trees in order still.
LEMMA OrdersOther ==
    ASSUME AgeInv, NEW q \in Procs, Orders(q), proc'[q] = proc[q], backups'[q] = backups[q],
           proc[q].area \in Areas,
           PromotedInOrder(q) \/ Swaps(q) => Grows(proc[q].area)
    PROVE  Orders(q)'
<1> DEFINE a == proc[q].area
<1>1. /\ ReadInOrder(q)' = ReadInOrder(q) /\ PromotedInOrder(q)' = PromotedInOrder(q)
      /\ Swaps(q)' = Swaps(q) /\ Undoable(q)' = Undoable(q) /\ Saved(q)' = Saved(q)
      /\ Installed(q)' = Installed(q) /\ Pending(q)' = Pending(q)
  BY DEF ReadInOrder, PromotedInOrder, Swaps, Undoable, At, Saved, Installed, Pending
<1>2. Base(a) \in Dests /\ Overlay(a) \in Dests
  BY DestinationsAreGiven
<1>3. ASSUME a \in Existing, PromotedInOrder(q)
      PROVE  tree'[Overlay(a)] # Absent /\ Ordered(proc[q].overlay, tree'[Overlay(a)])
  <2>1. /\ Grows(a) /\ tree[Overlay(a)] # Absent /\ Ordered(proc[q].overlay, tree[Overlay(a)])
        /\ proc[q].overlay \in Trees /\ Numbered(proc[q].overlay, Newest)
    BY <1>3, Fields DEF Orders, AgeInv, Inv, Remembers
  <2> QED BY <2>1 DEF Grows
<1>4. ASSUME a \in Existing, Swaps(q) PROVE Swapping(q)'
  <2>1. Grows(a) /\ Swapping(q)
    BY <1>4 DEF Orders
  <2>2. \A t \in Trees : Ordered(t, tree[Overlay(a)]) /\ tree[Overlay(a)] # Absent
                            /\ Numbered(t, Newest) => Ordered(t, tree'[Overlay(a)])
    BY <2>1 DEF Grows
  <2>3. tree'[Overlay(a)] \in Trees => tree[Overlay(a)] \in Trees /\ tree[Overlay(a)] # Absent
    BY <1>2, <2>1, ReadsAreTrees, AbsentIsNoTree DEF Grows, AgeInv, Inv
  <2>4. ASSUME WasOrdered(q) PROVE WasOrdered(q)'
    <3> SUFFICES ASSUME NEW t \in Trees, NEW u \in Trees, Was(q, Base(a), t)', Was(q, Overlay(a), u)'
                 PROVE  Ordered(t, u)
      BY DEF WasOrdered
    <3>1. Was(q, Base(a), t)
      BY <1>1, <2>1 DEF Was, Grows
    <3>2. CASE Was(q, Overlay(a), u)
      BY <2>4, <3>1, <3>2 DEF WasOrdered
    <3>3. CASE ~ Was(q, Overlay(a), u)
      <4>1. tree'[Overlay(a)] = u /\ Was(q, Overlay(a), tree[Overlay(a)])
        BY <1>1, <3>3 DEF Was
      <4>2. Ordered(t, tree[Overlay(a)]) /\ Numbered(t, Newest)
        BY <1>2, <2>3, <2>4, <3>1, <4>1, WasNumbered DEF WasOrdered
      <4> QED BY <2>2, <2>3, <4>1, <4>2
    <3> QED BY <3>2, <3>3
  <2>5. ASSUME WillOrdered(q) PROVE WillOrdered(q)'
    <3> SUFFICES ASSUME NEW t \in Trees, NEW u \in Trees, Will(q, Base(a), t)', Will(q, Overlay(a), u)'
                 PROVE  Ordered(t, u)
      BY DEF WillOrdered
    <3>1. Will(q, Base(a), t)
      BY <1>1, <2>1 DEF Will, Grows
    <3>2. CASE Will(q, Overlay(a), u)
      BY <2>5, <3>1, <3>2 DEF WillOrdered
    <3>3. CASE ~ Will(q, Overlay(a), u)
      <4>1. tree'[Overlay(a)] = u /\ Will(q, Overlay(a), tree[Overlay(a)])
        BY <1>1, <3>3 DEF Will
      <4>2. Ordered(t, tree[Overlay(a)]) /\ Numbered(t, Newest)
        BY <1>2, <2>3, <2>5, <3>1, <4>1, WasNumbered DEF WillOrdered
      <4> QED BY <2>2, <2>3, <4>1, <4>2
    <3> QED BY <3>2, <3>3
  <2>6. \A d \in {Base(a), Overlay(a)} : tree'[d] = Absent <=> tree[d] = Absent
    BY <2>1 DEF Grows
  <2> QED BY <1>1, <2>1, <2>4, <2>5, <2>6 DEF Swapping
<1> QED BY <1>1, <1>3, <1>4 DEF Orders

LEMMA QuietGrows ==
    ASSUME AgeInv, NEW a \in Areas, Quiet(a), Grows(a)
    PROVE  Quiet(a)'
<1>1. Base(a) \in Dests /\ tree[Base(a)] # Absent /\ tree[Overlay(a)] # Absent
  BY DestinationsAreGiven DEF Quiet
<1>2. tree[Base(a)] \in Trees /\ Numbered(tree[Base(a)], Newest)
  BY <1>1, ReadsAreTrees DEF AgeInv, Inv, Aged
<1> QED BY <1>1, <1>2 DEF Quiet, Grows

\* What a step of a process is shown to do if nobody is killed.
Sorted(p) ==
    /\ Orders(p)' /\ Decided(p)'
    /\ \A a \in Existing : Moves(p, a) => Moves(p, a)' \/ Quiet(a)'

\* The trees of an area that the process neither moves nor makes stay.
LEMMA TreesStay ==
    ASSUME Inv, NEW p \in Procs, Confined(p), NEW a \in Areas,
           ~ Moves(p, a), Makes(p) => proc[p].area # a
    PROVE  Grows(a) /\ tree'[Base(a)] = tree[Base(a)] /\ tree'[Overlay(a)] = tree[Overlay(a)]
<1>1. ASSUME NEW d \in {Base(a), Overlay(a)} PROVE tree'[d] = tree[d]
  <2>1. d \in Dests /\ d # Src
    BY DestinationsAreGiven
  <2>2. ~ (proc[p].at \in Moving /\ d \in Own(p))
    <3> SUFFICES ASSUME proc[p].at \in Moving, d \in Own(p) PROVE FALSE
      OBVIOUS
    <3>1. proc[p].area \in Areas
      BY LockedFacts DEF Locked, Moving
    <3>2. proc[p].call \notin SourceCalls /\ d \in {Base(proc[p].area), Overlay(proc[p].area)}
      BY <2>1 DEF Own
    <3>3. proc[p].area = a
      BY <3>1, <3>2, DestinationsAreGiven
    <3> QED BY <3>2, <3>3 DEF Moves, Swaps
  <2>3. ~ (Makes(p) /\ d \in {Base(proc[p].area), Overlay(proc[p].area)})
    BY MakingFacts, DestinationsAreGiven DEF Makes
  <2> QED BY <2>1, <2>2, <2>3 DEF Confined, Makes
<1> QED BY <1>1 DEF Grows

LEMMA SortedStep ==
    ASSUME OrderInv, NEW p \in Procs, Proper(p), Ages(p), Confined(p),
           disturbed \subseteq disturbed', "kill" \notin disturbed' => Sorted(p)
    PROVE  OrderInv'
<1>1. AgeInv' /\ Inv /\ Inv'
  BY AgesStep DEF OrderInv, AgeInv
<1>2. \A a \in Existing : Readable(a)'
  BY ExistingAreAreas DEF OrderInv, Proper, StayReadable
<1> SUFFICES ASSUME "kill" \notin disturbed'
             PROVE  /\ \A a \in Existing : Quiet(a)' \/ \E q \in Procs : Moves(q, a)'
                    /\ \A q \in Procs : Orders(q)' /\ Decided(q)'
  BY <1>1, <1>2 DEF OrderInv
<1>3. /\ \A a \in Existing : Quiet(a) \/ \E q \in Procs : Moves(q, a)
      /\ \A q \in Procs : Orders(q) /\ Decided(q)
      /\ AgeInv /\ Sorted(p)
  BY DEF OrderInv
<1>4. ASSUME NEW q \in Procs, q # p
      PROVE  /\ proc'[q] = proc[q] /\ backups'[q] = backups[q] /\ Decided(q)'
             /\ \A a \in Existing : Moves(q, a)' = Moves(q, a)
  <2>1. proc'[q] = proc[q] /\ backups'[q] = backups[q]
    BY <1>4 DEF Proper, Others, OthersBackups
  <2>2. Decided(q)
    BY <1>3
  <2> QED BY <2>1, <2>2 DEF Decided, Moves, Swaps, At, Makes
<1>5. ASSUME NEW q \in Procs, q # p PROVE Orders(q)'
  <2>1. CASE ~ (PromotedInOrder(q) \/ Swaps(q))
    <3>1. Orders(q) /\ proc'[q] = proc[q] /\ backups'[q] = backups[q]
      BY <1>3, <1>4, <1>5
    <3> QED BY <2>1, <3>1 DEF Orders, ReadInOrder, PromotedInOrder, Swaps, At
  <2>2. CASE PromotedInOrder(q) \/ Swaps(q)
    <3>1. proc[q].area \in Areas /\ areaLock[proc[q].area] = q
      BY <1>1, <2>2, LockedFacts DEF PromotedInOrder, Swaps, At, Locked, Moving
    <3>2. ~ Moves(p, proc[q].area) /\ (Makes(p) => proc[p].area # proc[q].area)
      BY <1>1, <1>5, <3>1, LockedFacts, MakingFacts DEF Moves, Swaps, Makes, Locked, Moving
    <3>3. Grows(proc[q].area)
      BY <1>1, <3>1, <3>2, TreesStay
    <3> QED BY <1>3, <1>4, <1>5, <3>1, <3>3, OrdersOther
  <2> QED BY <2>1, <2>2
<1>6. ASSUME NEW a \in Existing PROVE Quiet(a)' \/ \E q \in Procs : Moves(q, a)'
  <2>1. CASE Moves(p, a)
    BY <1>3, <2>1 DEF Sorted
  <2>2. ASSUME NEW q \in Procs, q # p, Moves(q, a) PROVE Moves(q, a)'
    BY <1>4, <2>2
  <2>3. CASE ~ Moves(p, a) /\ Quiet(a)
    <3>1. a \in Areas /\ (Makes(p) => proc[p].area # a)
      BY <1>3, ExistingAreAreas DEF Decided
    <3>2. Grows(a)
      BY <1>1, <2>3, <3>1, TreesStay
    <3> QED BY <1>3, <2>3, <3>1, <3>2, QuietGrows
  <2> QED BY <1>3, <2>1, <2>2, <2>3
<1> QED BY <1>3, <1>4, <1>5, <1>6 DEF Sorted

\* Where the trees of an area are locked and not being replaced, they are in order.
LEMMA QuietHere ==
    ASSUME OrderInv, "kill" \notin disturbed, NEW p \in Procs,
           proc[p].at \in Locked \ (Moving \cup {"waiting"}), proc[p].area \in Existing
    PROVE  Quiet(proc[p].area)
<1>1. areaLock[proc[p].area] = p /\ Inv
  BY LockedFacts DEF OrderInv, AgeInv
<1>2. ASSUME NEW q \in Procs, Moves(q, proc[p].area) PROVE FALSE
  <2>1. proc[q].area = proc[p].area /\ areaLock[proc[q].area] = q
    BY <1>1, <1>2, LockedFacts DEF Moves, Swaps, Locked, Moving
  <2> QED BY <1>1, <1>2, <2>1 DEF Moves, Swaps
<1> QED BY <1>2 DEF OrderInv

\* Steps to a phase that asks nothing of the trees.
LEMMA SortedTrivially ==
    ASSUME NEW p \in Procs,
           proc'[p].at \notin Moving \cup {"prepared", "committing", "reverting", "sourced",
                                           "copying", "importing"},
           \A a \in Existing : Moves(p, a) => Quiet(a)'
    PROVE  Sorted(p)
BY DEF Sorted, Orders, ReadInOrder, PromotedInOrder, Swaps, Decided, At, Makes

LEMMA CalledSorted ==
    ASSUME OrderInv, "kill" \notin disturbed, NEW p \in Procs, Proper(p),
           proc[p].at \in Locked \ (Moving \cup {"waiting"}),
           NEW call, NEW jobs, Called(p, call, jobs),
           call \notin SourceCalls /\ proc[p].area \in Existing => WillOrdered(p)',
           call = "rebase" /\ proc[p].area \in Existing => Ordered(proc'[p].base, proc'[p].overlay),
           call = "source" /\ proc[p].area \in Existing
              => tree[Overlay(proc[p].area)] # Absent
                    /\ Ordered(proc'[p].overlay, tree[Overlay(proc[p].area)])
    PROVE  Sorted(p)
<1>1. /\ proc'[p].at = "replacing" /\ proc'[p].call = call /\ proc'[p].jobs = jobs
      /\ proc'[p].area = proc[p].area /\ tree' = tree /\ Installed(p)' = {} /\ Saved(p)' = {}
  <2>1. backups'[p] = <<>>
    BY DEF OrderInv, AgeInv, Inv, Orderly, Called, Steady
  <2> QED BY <2>1, EmptyElements DEF Called, Steady, Installed, Saved
<1>2. Elements(backups'[p]) = {}
  <2>1. backups'[p] = <<>>
    BY DEF OrderInv, AgeInv, Inv, Orderly, Called, Steady
  <2> QED BY <2>1, EmptyElements
<1>3. ASSUME call \notin SourceCalls, proc[p].area \in Existing PROVE Swapping(p)'
  <2>1. Quiet(proc[p].area) /\ WillOrdered(p)'
    BY <1>3, QuietHere
  <2>2. WasOrdered(p)'
    BY <1>1, <1>2, <2>1 DEF WasOrdered, Was, Quiet
  <2> QED BY <1>1, <2>1, <2>2 DEF Swapping, Quiet
<1>4. Orders(p)'
  BY <1>1, <1>3 DEF Orders, ReadInOrder, PromotedInOrder, Swaps, At, Moving
<1>5. Decided(p)' /\ \A a \in Existing : ~ Moves(p, a)
  BY <1>1 DEF Decided, At, Makes, Moves, Swaps
<1> QED BY <1>4, <1>5 DEF Sorted

\* A developer edits.
LEMMA EditSorted ==
    ASSUME OrderInv, NEW e \in Edited, Edit(e[1], e[2])
    PROVE  OrderInv'
<1>1. /\ AgeInv /\ AgeInv' /\ Inv /\ e[2] \in Paths /\ tree[e[1]] \in Trees
      /\ Newest + 1 # Missing /\ Newest \in Nat
  BY EditAges, NewestIsNat DEF OrderInv, AgeInv
<1>2. /\ UNCHANGED <<litter, backups, record, proc, disturbed>>
      /\ e[1] \in Dests /\ tree[e[1]] # Absent
      /\ tree'[e[1]] = [tree[e[1]] EXCEPT ![e[2]] = Newest + 1] /\ tree'[e[1]] \in Trees
      /\ \A d \in Dests : d # e[1] => tree'[d] = tree[d]
      /\ e[1] = Src \/ \E a \in Areas : e[1] = Overlay(a)
  BY <1>1, EditStep, EditedTrees
<1>3. ASSUME NEW a \in Areas PROVE Grows(a)
  <2>1. Base(a) \in Dests /\ Overlay(a) \in Dests /\ Base(a) # e[1]
    BY <1>2, DestinationsAreGiven
  <2>2. CASE e[1] # Overlay(a)
    BY <1>2, <2>1, <2>2 DEF Grows
  <2>3. CASE e[1] = Overlay(a)
    <3>1. ASSUME NEW t \in Trees, Numbered(t, Newest), Ordered(t, tree[Overlay(a)])
          PROVE  Ordered(t, tree'[Overlay(a)])
      BY <1>1, <1>2, <2>3, <3>1, EditOrdered
    <3>2. tree'[Overlay(a)] # Absent /\ tree[Overlay(a)] # Absent
      BY <1>2, <2>3, AbsentIsNoTree
    <3> QED BY <1>2, <2>1, <3>1, <3>2 DEF Grows
  <2> QED BY <2>2, <2>3
<1>4. \A a \in Existing : Readable(a)'
  BY <1>2 DEF OrderInv, Readable
<1> SUFFICES ASSUME "kill" \notin disturbed
             PROVE  /\ \A a \in Existing : Quiet(a)' \/ \E q \in Procs : Moves(q, a)'
                    /\ \A q \in Procs : Orders(q)' /\ Decided(q)'
  BY <1>1, <1>2, <1>4 DEF OrderInv
<1>5. /\ \A a \in Existing : Quiet(a) \/ \E q \in Procs : Moves(q, a)
      /\ \A q \in Procs : Orders(q) /\ Decided(q)
  BY DEF OrderInv
<1>6. ASSUME NEW q \in Procs PROVE Orders(q)' /\ Decided(q)'
  <2>1. Decided(q)'
    BY <1>2, <1>5 DEF Decided, At, Makes
  <2>2. CASE proc[q].area \in Areas
    BY <1>1, <1>2, <1>3, <1>5, <2>1, <2>2, OrdersOther
  <2>3. CASE proc[q].area \notin Areas
    BY <1>2, <2>1, <2>3, ExistingAreAreas DEF Orders
  <2> QED BY <2>1, <2>2, <2>3
<1>7. ASSUME NEW a \in Existing PROVE Quiet(a)' \/ \E q \in Procs : Moves(q, a)'
  <2>1. Quiet(a) => Quiet(a)'
    BY <1>1, <1>3, ExistingAreAreas, QuietGrows
  <2>2. \A q \in Procs : Moves(q, a) => Moves(q, a)'
    BY <1>2 DEF Moves, Swaps
  <2> QED BY <1>5, <2>1, <2>2
<1> QED BY <1>6, <1>7

\* The renames of a call keep the trees of its area in order.
LEMMA MovingSorted ==
    ASSUME OrderInv, "kill" \notin disturbed, NEW p \in Procs, ReplaceTrees(p)
    PROVE  Sorted(p)
<1> DEFINE a == proc[p].area
           pair == {Base(a), Overlay(a)}
<1>0. /\ AgeInv /\ Inv /\ Types /\ Orderly(p) /\ Orders(p) /\ Decided(p)
  BY DEF OrderInv, AgeInv, Inv
<1>1. proc[p].at \in Moving
  BY <1>0, MoveAwayStep, MoveInStep, RenameFailsStep, RemoveInstalledStep, RestoreBackupStep,
     RestoreFailsStep, RaiseStep, DropBackupStep, ReplacedStep DEF ReplaceTrees, At, Moving
<1>2. /\ a \in Areas /\ Base(a) \in Dests /\ Overlay(a) \in Dests /\ pair \subseteq Dests
      /\ proc[p].call \in Calls \ {"none"}
  BY <1>0, <1>1, LockedFacts, Fields DEF Locked, Moving, Orderly
<1>3. proc[p].call = "source" => Own(p) = {Src} /\ Overlay(a) # Src
  BY <1>2, DestinationsAreGiven DEF Own, SourceCalls
<1>4. Swaps(p) => Own(p) = pair
  BY DEF Swaps, Own
<1>5. Saved(p) \cup Installed(p) \cup Pending(p) \subseteq Own(p)
  BY <1>0, <1>1, OwnFacts
\* Steps within the call.
<1>6. ASSUME proc'[p].at \in Moving, proc'[p].call = proc[p].call, SameMemory(p),
             \A d \in Dests : d \notin Own(p) => tree'[d] = tree[d],
             Swaps(p) /\ a \in Existing => Swapping(p)'
      PROVE  Sorted(p)
  <2>1. /\ ReadInOrder(p)' => ReadInOrder(p)
        /\ PromotedInOrder(p)' => PromotedInOrder(p)
        /\ Swaps(p)' = Swaps(p) /\ proc'[p].area = a
    BY <1>1, <1>6 DEF ReadInOrder, PromotedInOrder, Swaps, At, Moving, SameMemory
  <2>2. PromotedInOrder(p)' => tree'[Overlay(a)] = tree[Overlay(a)]
    BY <1>2, <1>3, <1>6 DEF PromotedInOrder, At, Moving
  <2>3. ASSUME proc'[p].area \in Existing
        PROVE  /\ ReadInOrder(p)' => Ordered(proc'[p].base, proc'[p].overlay)
               /\ PromotedInOrder(p)' => /\ tree'[Overlay(proc'[p].area)] # Absent
                                         /\ Ordered(proc'[p].overlay, tree'[Overlay(proc'[p].area)])
               /\ Swaps(p)' => Swapping(p)'
    <3>1. /\ proc'[p].base = proc[p].base /\ proc'[p].overlay = proc[p].overlay
          /\ proc[p].area \in Existing
      BY <1>6, <2>1, <2>3 DEF SameMemory
    <3>2. ReadInOrder(p)' => Ordered(proc'[p].base, proc'[p].overlay)
      BY <1>0, <2>1, <3>1 DEF Orders
    <3>3. PromotedInOrder(p)' => /\ tree'[Overlay(a)] # Absent
                                 /\ Ordered(proc'[p].overlay, tree'[Overlay(a)])
      BY <1>0, <2>1, <2>2, <3>1 DEF Orders
    <3> QED BY <1>6, <2>1, <3>1, <3>2, <3>3
  <2>4. Decided(p)' /\ \A b \in Existing : Moves(p, b) => Moves(p, b)'
    BY <1>6, <2>1 DEF Decided, At, Makes, Moving, Moves
  <2>5. Orders(p)'
    BY <2>3 DEF Orders
  <2> QED BY <2>4, <2>5 DEF Sorted
\* Steps that end it.
<1>7. ASSUME proc'[p].at \in Exits, SameMemory(p), UNCHANGED tree,
             proc'[p].at \in {"committing", "reverting"} => proc[p].call = "rebase",
             proc'[p].at = "sourced" => proc[p].call = "source",
             Swaps(p) /\ a \in Existing => Quiet(a)
      PROVE  Sorted(p)
  <2>1. /\ ReadInOrder(p)' => ReadInOrder(p)
        /\ PromotedInOrder(p)' => PromotedInOrder(p)
        /\ ~ Swaps(p)' /\ proc'[p].area = a
    BY <1>1, <1>7 DEF ReadInOrder, PromotedInOrder, Swaps, At, Moving, SameMemory, Exits
  <2>2. ASSUME proc'[p].area \in Existing
        PROVE  /\ ReadInOrder(p)' => Ordered(proc'[p].base, proc'[p].overlay)
               /\ PromotedInOrder(p)' => /\ tree'[Overlay(proc'[p].area)] # Absent
                                         /\ Ordered(proc'[p].overlay, tree'[Overlay(proc'[p].area)])
    <3>1. /\ proc'[p].base = proc[p].base /\ proc'[p].overlay = proc[p].overlay
          /\ proc[p].area \in Existing /\ tree'[Overlay(a)] = tree[Overlay(a)]
      BY <1>7, <2>1, <2>2 DEF SameMemory
    <3>2. ReadInOrder(p)' => Ordered(proc'[p].base, proc'[p].overlay)
      BY <1>0, <2>1, <3>1 DEF Orders
    <3>3. PromotedInOrder(p)' => /\ tree'[Overlay(a)] # Absent
                                 /\ Ordered(proc'[p].overlay, tree'[Overlay(a)])
      BY <1>0, <2>1, <3>1 DEF Orders
    <3> QED BY <2>1, <3>2, <3>3
  <2>3. Decided(p)'
    BY <1>7 DEF Decided, At, Makes, Exits
  <2>4. \A b \in Existing : Moves(p, b) => Quiet(b)'
    BY <1>7 DEF Moves, Quiet
  <2>5. Orders(p)'
    BY <2>1, <2>2 DEF Orders
  <2> QED BY <2>3, <2>4, <2>5 DEF Sorted
<1>8. a \in Existing /\ Swaps(p) => Swapping(p)
  BY <1>0 DEF Orders
\* What was there before and will be there after is the same after a step.
<1>9. ASSUME proc'[p].area = a, WasOrdered(p),
             \A d \in pair, t \in Trees : Was(p, d, t)' => Was(p, d, t)
      PROVE  WasOrdered(p)'
  BY <1>9 DEF WasOrdered
<1>10. ASSUME proc'[p].area = a, WillOrdered(p),
              \A d \in pair, t \in Trees : Will(p, d, t)' => Will(p, d, t)
       PROVE  WillOrdered(p)'
  BY <1>10 DEF WillOrdered
<1>11. CASE MoveAway(p)
  <2>1. /\ At(p, "replacing") /\ proc'[p].at = "between" /\ SameMemory(p) /\ SameCall(p)
        /\ Target(p) \in Pending(p) /\ Target(p) \notin Installed(p) /\ Target(p) \notin Saved(p)
        /\ tree'[Target(p)] = Absent /\ \A d \in Dests : d # Target(p) => tree'[d] = tree[d]
        /\ Elements(backups'[p]) = Elements(backups[p]) \cup {<<Target(p), tree[Target(p)]>>}
        /\ Saved(p)' = Saved(p) \cup {Target(p)} /\ proc[p].jobs # <<>>
    BY <1>0, <1>11, MoveAwayStep
  <2>2. /\ Installed(p)' = Installed(p) /\ Pending(p)' = Pending(p) /\ proc'[p].area = a
        /\ proc'[p].jobs = proc[p].jobs /\ proc'[p].call = proc[p].call /\ Undoable(p)
    BY <1>1, <2>1 DEF Installed, Pending, SameCall, SameMemory, Undoable
  <2>3. ASSUME Swaps(p), a \in Existing PROVE Swapping(p)'
    <3>1. Swapping(p) /\ WasOrdered(p) /\ WillOrdered(p) /\ Installed(p) \subseteq Saved(p)
      BY <1>8, <2>1, <2>2, <2>3 DEF Swapping, At
    <3>2. WasOrdered(p)'
      BY <1>2, <1>9, <2>1, <2>2, <3>1 DEF Was
    <3>3. WillOrdered(p)'
      BY <1>2, <1>10, <2>1, <2>2, <3>1 DEF Will
    <3>4. \A d \in pair : d \in Saved(p)' \/ d \in Installed(p)' \/ tree'[d] # Absent
      BY <1>2, <2>1, <2>2, <3>1 DEF Swapping
    <3>5. \A d \in pair : d \in Installed(p)' => tree'[d] # Absent
      BY <1>2, <2>1, <2>2, <3>1 DEF Swapping, At
    <3>6. \A d \in pair : d \in Saved(p)' /\ d \notin Installed(p)' => tree'[d] = Absent
      BY <1>0, <2>1, <2>2 DEF Orderly
    <3> QED BY <2>1, <2>2, <3>1, <3>2, <3>3, <3>4, <3>5, <3>6 DEF Swapping
  <2>4. \A d \in Dests : d \notin Own(p) => tree'[d] = tree[d]
    BY <1>5, <2>1
  <2> QED BY <1>6, <2>1, <2>2, <2>3, <2>4 DEF Moving
<1>12. CASE MoveIn(p)
  <2>1. /\ proc[p].at \in {"replacing", "between"} /\ proc'[p].at = "replacing" /\ SameMemory(p)
        /\ proc'[p].call = proc[p].call /\ proc[p].jobs # <<>> /\ proc[p].jobs[1] \in Pairs
        /\ Target(p) \in Pending(p) /\ tree[Target(p)] = Absent
        /\ tree'[Target(p)] = proc[p].jobs[1][2]
        /\ \A d \in Dests : d # Target(p) => tree'[d] = tree[d]
        /\ Elements(proc[p].jobs) = Elements(proc'[p].jobs) \cup {proc[p].jobs[1]}
        /\ Pending(p) = Pending(p)' \cup {Target(p)}
        /\ Installed(p)' = Installed(p) \cup {Target(p)}
        /\ UNCHANGED backups /\ Saved(p)' = Saved(p)
    BY <1>0, <1>12, MoveInStep
  <2>2. /\ proc'[p].area = a /\ Undoable(p) /\ proc[p].jobs[1] = <<Target(p), proc[p].jobs[1][2]>>
        /\ proc[p].jobs[1][2] \in Trees /\ Target(p) \notin Installed(p)
        /\ At(p, "replacing") => Saved(p) \subseteq Installed(p)
        /\ At(p, "between") => Target(p) \in Saved(p)
    BY <1>0, <1>1, <2>1 DEF SameMemory, Undoable, Pairs, Target, Orderly
  <2>3. ASSUME Swaps(p), a \in Existing PROVE Swapping(p)'
    <3>1. Swapping(p) /\ WasOrdered(p) /\ WillOrdered(p) /\ Installed(p) \subseteq Saved(p)
      BY <1>8, <2>1, <2>2, <2>3 DEF Swapping
    <3>2. Target(p) \in pair
      BY <1>4, <1>5, <2>1, <2>3
    <3>3. Target(p) \in Saved(p)
      BY <2>1, <2>2, <3>1, <3>2 DEF Swapping, At
    <3>4. WasOrdered(p)'
      BY <1>2, <1>9, <2>1, <2>2, <3>1 DEF Was
    <3>5. WillOrdered(p)'
      BY <1>2, <1>10, <2>1, <2>2, <3>1 DEF Will
    <3>6. tree'[Target(p)] # Absent
      BY <2>1, <2>2, AbsentIsNoTree
    <3>7. \A d \in pair : d \in Saved(p)' \/ d \in Installed(p)' \/ tree'[d] # Absent
      BY <1>2, <2>1, <3>1 DEF Swapping
    <3>8. \A d \in pair : d \in Installed(p)' => tree'[d] # Absent
      BY <1>2, <2>1, <3>1, <3>6 DEF Swapping
    <3> QED BY <2>1, <2>2, <3>1, <3>3, <3>4, <3>5, <3>7, <3>8 DEF Swapping
  <2>4. \A d \in Dests : d \notin Own(p) => tree'[d] = tree[d]
    BY <1>5, <2>1
  <2> QED BY <1>6, <2>1, <2>3, <2>4 DEF Moving
<1>13. CASE RenameFails(p)
  <2>1. /\ proc[p].at \in {"replacing", "between"} /\ proc'[p].at = "undoing" /\ SameMemory(p)
        /\ UNCHANGED <<tree, backups>> /\ proc[p].jobs # <<>> /\ SameCall(p)
    BY <1>0, <1>13, RenameFailsStep
  <2>2. /\ Installed(p)' = Installed(p) /\ Saved(p)' = Saved(p) /\ proc'[p].area = a
        /\ Undoable(p) /\ proc'[p].call = proc[p].call
        /\ At(p, "replacing") => Saved(p) \subseteq Installed(p)
    BY <1>0, <1>1, <2>1 DEF Installed, Saved, SameMemory, SameCall, Undoable, Orderly
  <2>3. ASSUME Swaps(p), a \in Existing PROVE Swapping(p)'
    <3>1. Swapping(p) /\ WasOrdered(p) /\ Installed(p) \subseteq Saved(p)
      BY <1>8, <2>2, <2>3 DEF Swapping
    <3>2. WasOrdered(p)'
      BY <1>9, <2>1, <2>2, <3>1 DEF Was
    <3>3. \A d \in pair : d \in Saved(p) /\ d \notin Installed(p) => tree[d] = Absent
      BY <2>1, <2>2, <3>1 DEF Swapping, At
    <3> QED BY <2>1, <2>2, <3>1, <3>2, <3>3 DEF Swapping
  <2> QED BY <1>6, <2>1, <2>2, <2>3 DEF Moving
<1>14. CASE RemoveInstalled(p)
  <2>1. /\ At(p, "undoing") /\ proc'[p].at = "undoing" /\ SameMemory(p)
        /\ proc'[p].call = proc[p].call /\ UNCHANGED backups /\ Saved(p)' = Saved(p)
        /\ proc'[p].area = a /\ Undoable(p)
    BY <1>0, <1>1, <1>14, RemoveInstalledStep DEF SameMemory, Undoable
  <2>2. PICK x \in Dests : /\ x \in Own(p) /\ Installed(p) = {x} \cup Installed(p)'
                           /\ tree'[x] = Absent
                           /\ \A e \in Dests : e # x => tree'[e] = tree[e]
    BY <1>0, <1>14, RemoveInstalledStep
  <2>3. ASSUME Swaps(p), a \in Existing PROVE Swapping(p)'
    <3>1. Swapping(p) /\ WasOrdered(p) /\ Installed(p) \subseteq Saved(p)
      BY <1>8, <2>1, <2>3 DEF Swapping
    <3>2. WasOrdered(p)'
      BY <1>2, <1>9, <2>1, <2>2, <3>1 DEF Was
    <3>3. \A d \in pair : d \in Saved(p)' \/ d \in Installed(p)' \/ tree'[d] # Absent
      BY <1>2, <2>1, <2>2, <3>1 DEF Swapping
    <3>4. \A d \in pair : d \in Saved(p)' /\ d \notin Installed(p)' => tree'[d] = Absent
      BY <1>2, <2>1, <2>2, <3>1 DEF Swapping, At
    <3> QED BY <2>1, <2>2, <3>1, <3>2, <3>3, <3>4 DEF Swapping
  <2> QED BY <1>6, <2>1, <2>2, <2>3 DEF Moving
<1>15. CASE RestoreBackup(p)
  <2>1. /\ At(p, "undoing") /\ UNCHANGED proc /\ Installed(p) = {} /\ Undoable(p) /\ SameMemory(p)
        /\ Installed(p)' = {}
    BY <1>0, <1>1, <1>15, RestoreBackupStep DEF SameMemory, Undoable, Installed
  <2>2. PICK e \in Pairs : /\ e[1] \in Own(p) /\ tree[e[1]] = Absent /\ tree'[e[1]] = e[2]
                           /\ \A d \in Dests : d # e[1] => tree'[d] = tree[d]
                           /\ Elements(backups[p]) = {e} \cup Elements(backups'[p])
                           /\ Saved(p) = {e[1]} \cup Saved(p)' /\ e[1] \notin Saved(p)'
    BY <1>0, <1>15, RestoreBackupStep
  <2>3. e = <<e[1], e[2]>> /\ e[2] # Absent
    BY <2>2, AbsentIsNoTree DEF Pairs
  <2>4. ASSUME Swaps(p), a \in Existing PROVE Swapping(p)'
    <3>1. Swapping(p) /\ WasOrdered(p)
      BY <1>8, <2>1, <2>4 DEF Swapping
    <3>2. WasOrdered(p)'
      BY <1>2, <1>9, <2>1, <2>2, <2>3, <3>1 DEF Was
    <3>3. \A d \in pair : d \in Saved(p)' \/ d \in Installed(p)' \/ tree'[d] # Absent
      BY <1>2, <2>1, <2>2, <2>3, <3>1 DEF Swapping
    <3>4. \A d \in pair : d \in Saved(p)' /\ d \notin Installed(p)' => tree'[d] = Absent
      BY <1>2, <2>1, <2>2, <3>1 DEF Swapping, At
    <3> QED BY <2>1, <2>2, <3>1, <3>2, <3>3, <3>4 DEF Swapping, At
  <2> QED BY <1>6, <2>1, <2>2, <2>4 DEF Moving, At
<1>16. CASE RestoreFails(p)
  <2>1. /\ At(p, "undoing") /\ UNCHANGED tree /\ proc'[p].at = Raises[proc[p].call]
        /\ proc'[p].at \in Exits /\ SameMemory(p) /\ Installed(p) = {}
        /\ \E d \in Saved(p) : tree[d] # Absent
    BY <1>0, <1>16, RestoreFailsStep
  <2>2. ~ (Swaps(p) /\ a \in Existing)
    BY <1>4, <1>5, <1>8, <2>1 DEF Swapping, At
  <2> QED BY <1>2, <1>7, <2>1, <2>2, ExitsAreKnown
<1>17. CASE Raise(p)
  <2>1. /\ At(p, "undoing") /\ UNCHANGED tree /\ proc'[p].at = Raises[proc[p].call]
        /\ proc'[p].at \in Exits /\ SameMemory(p) /\ Installed(p) = {} /\ Saved(p) = {}
        /\ Undoable(p)
    BY <1>0, <1>1, <1>17, RaiseStep DEF Undoable
  <2>2. ASSUME Swaps(p), a \in Existing PROVE Quiet(a)
    <3>1. Swapping(p) /\ WasOrdered(p) /\ tree[Base(a)] # Absent /\ tree[Overlay(a)] # Absent
      BY <1>8, <2>1, <2>2 DEF Swapping
    <3>2. tree[Base(a)] \in Trees /\ tree[Overlay(a)] \in Trees
      BY <1>0, <1>2, <3>1, ReadsAreTrees
    <3> QED BY <2>1, <3>1, <3>2 DEF WasOrdered, Was, Quiet
  <2> QED BY <1>2, <1>7, <2>1, <2>2, ExitsAreKnown
<1>18. CASE DropBackup(p)
  <2>1. /\ At(p, "replacing") /\ UNCHANGED <<tree, proc>> /\ proc[p].jobs = <<>>
        /\ Saved(p)' \subseteq Saved(p) /\ SameMemory(p) /\ ~ Undoable(p)'
        /\ Installed(p)' = Installed(p) /\ Saved(p) \subseteq Installed(p)
    BY <1>0, <1>18, DropBackupStep DEF SameMemory, Undoable, Installed, At, Orderly
  <2>2. ASSUME Swaps(p), a \in Existing PROVE Swapping(p)'
    <3>1. Swapping(p) /\ WillOrdered(p)
      BY <1>8, <2>1, <2>2 DEF Swapping, At
    <3>2. WillOrdered(p)'
      BY <1>10, <2>1, <3>1 DEF Will, Pending
    <3> QED BY <2>1, <3>1, <3>2 DEF Swapping, At
  <2> QED BY <1>6, <2>1, <2>2 DEF Moving, At
<1>19. CASE Replaced(p)
  <2>1. /\ At(p, "replacing") /\ UNCHANGED tree /\ proc'[p].at = Returns[proc[p].call]
        /\ proc'[p].at \in Exits /\ SameMemory(p) /\ Saved(p) = {} /\ proc[p].jobs = <<>>
    BY <1>0, <1>19, ReplacedStep
  <2>2. ASSUME Swaps(p), a \in Existing PROVE Quiet(a)
    <3>1. Swapping(p) /\ WillOrdered(p) /\ tree[Base(a)] # Absent /\ tree[Overlay(a)] # Absent
      BY <1>8, <2>1, <2>2 DEF Swapping, At
    <3>2. tree[Base(a)] \in Trees /\ tree[Overlay(a)] \in Trees
      BY <1>0, <1>2, <3>1, ReadsAreTrees
    <3>3. Pending(p) = {}
      BY <2>1, EmptyElements DEF Pending
    <3> QED BY <3>1, <3>2, <3>3 DEF WillOrdered, Will, Quiet
  <2> QED BY <1>2, <1>7, <2>1, <2>2, ExitsAreKnown
<1> QED BY <1>11, <1>12, <1>13, <1>14, <1>15, <1>16, <1>17, <1>18, <1>19 DEF ReplaceTrees

\* The steps between two calls of a rebase or of a promotion keep them in order too.
LEMMA RebasesSorted ==
    ASSUME OrderInv, "kill" \notin disturbed, NEW p \in Procs,
           RebaseLocked(p) \/ CallFails(p) \/ Finish(p) \/ PromoteTrees(p)
    PROVE  Sorted(p)
<1> DEFINE a == proc[p].area
<1>0. /\ AgeInv /\ Inv /\ Types /\ Orders(p) /\ Decided(p)
      /\ proc[p].base \in Trees /\ proc[p].overlay \in Trees /\ proc[p].current \in Trees
  BY Fields DEF OrderInv, AgeInv, Inv
<1>1. proc[p].at \notin Moving
  BY DEF RebaseLocked, CallFails, Finish, PromoteTrees, ReadTrees, ReplacePair, Commit, Revert,
         LockPromotion, ReplaceSource, ReplaceBase, Handle, RecordPromotion, At, Moving
<1>2. \A b \in Existing : ~ Moves(p, b)
  BY <1>1 DEF Moves, Swaps
<1>3. ASSUME proc'[p].at \notin Moving \cup {"prepared", "committing", "reverting", "sourced",
                                             "copying", "importing"}
      PROVE  Sorted(p)
  BY <1>2, <1>3, SortedTrivially
<1>4. a \in Existing /\ ReadInOrder(p) => Ordered(proc[p].base, proc[p].overlay)
  BY <1>0 DEF Orders
<1>5. a \in Existing /\ PromotedInOrder(p) => /\ tree[Overlay(a)] # Absent
                                             /\ Ordered(proc[p].overlay, tree[Overlay(a)])
  BY <1>0 DEF Orders
\* What the jobs of a call will make of the two trees.
<1>6. ASSUME NEW call, NEW t \in Trees, NEW u \in Trees, Ordered(t, u), a \in Areas,
             Called(p, call, <<<<Base(a), t>>, <<Overlay(a), u>>>>)
      PROVE  WillOrdered(p)'
  <2>1. /\ Base(a) \in Dests /\ Overlay(a) \in Dests /\ Base(a) # Overlay(a)
    BY <1>6, DestinationsAreGiven
  <2>2. PICK jobs : jobs = <<<<Base(a), t>>, <<Overlay(a), u>>>>
    OBVIOUS
  <2>3. Firsts(jobs) = {Base(a), Overlay(a)} /\ Elements(jobs) = {<<Base(a), t>>, <<Overlay(a), u>>}
    BY <1>6, <2>1, <2>2, TwoJobs
  <2>4. proc'[p].jobs = jobs /\ proc'[p].area = a
    BY <1>6, <2>2 DEF Called
  <2>5. \A x : Will(p, Base(a), x)' => x = t
    BY <2>1, <2>3, <2>4 DEF Will, Pending
  <2>6. \A x : Will(p, Overlay(a), x)' => x = u
    BY <2>1, <2>3, <2>4 DEF Will, Pending
  <2> QED BY <1>6, <2>4, <2>5, <2>6 DEF WillOrdered
<1>7. CASE ReadTrees(p)
  <2>1. /\ At(p, "reading") /\ proc'[p].at \in {"rebased", "failing", "prepared"}
        /\ proc'[p].area = a /\ proc'[p].base = Read(Base(a)) /\ proc'[p].overlay = Read(Overlay(a))
        /\ proc'[p].at = "prepared"
              => Conflicts(proc'[p].base, proc'[p].overlay, proc'[p].current) = {}
    BY <1>0, <1>7, ReadTreesStep DEF ReadTrees
  <2>2. CASE proc'[p].at # "prepared"
    BY <1>3, <2>1, <2>2 DEF Moving
  <2>3. CASE proc'[p].at = "prepared"
    <3>1. a \in Existing => Ordered(proc'[p].base, proc'[p].overlay)
      BY <2>1, QuietHere DEF At, Locked, Moving, Quiet, Read
    <3>2. Orders(p)'
      BY <2>1, <2>3, <3>1 DEF Orders, PromotedInOrder, Swaps, At, Moving
    <3>3. Decided(p)'
      BY <2>1, <2>3 DEF Decided, Makes
    <3> QED BY <1>2, <3>2, <3>3 DEF Sorted
  <2> QED BY <2>2, <2>3
<1>8. CASE ReplacePair(p)
  <2>1. /\ At(p, "prepared") /\ Proper(p) /\ proc'[p].overlay = proc[p].overlay
    BY <1>0, <1>8, ReplacePairStep DEF ReplacePair
  <2>2. PICK m \in Trees : /\ m = Merge(proc[p].base, proc[p].overlay, proc[p].current)
                           /\ Called(p, "rebase",
                                 <<<<Base(a), proc[p].current>>, <<Overlay(a), m>>>>)
    BY <1>0, <1>8, ReplacePairStep
  <2>3. /\ a \in Areas /\ proc[p].at \in Locked \ (Moving \cup {"waiting"})
        /\ proc'[p].base = proc[p].base
    BY <1>0, <2>1, <2>2, LockedFacts DEF At, Locked, Moving, Called
  <2>4. a \in Existing => Ordered(proc[p].base, proc[p].overlay)
    BY <1>4, <2>1 DEF ReadInOrder, At
  <2>5. Conflicts(proc[p].base, proc[p].overlay, proc[p].current) = {}
    BY <1>0, <2>1 DEF Decided
  <2>6. a \in Existing => Ordered(proc[p].current, m)
    BY <1>0, <2>2, <2>4, <2>5, MergeOrdered
  <2>7. a \in Existing => WillOrdered(p)'
    BY <1>0, <1>6, <2>2, <2>3, <2>6
  <2> QED BY <2>1, <2>2, <2>3, <2>4, <2>7, CalledSorted
<1>9. CASE Commit(p)
  BY <1>0, <1>3, <1>9, CommitStep DEF Moving
<1>10. CASE CallFails(p)
  <2>1. /\ proc[p].at \in {"prepared", "committing", "sourced"} /\ SameMemory(p)
        /\ At(p, "prepared") => proc'[p].at = "failing"
        /\ At(p, "committing") => proc'[p].at = "reverting"
        /\ At(p, "sourced") => proc'[p].at = "handling"
    BY <1>0, <1>10, CallFailsStep DEF CallFails
  <2>2. CASE ~ At(p, "committing")
    BY <1>3, <2>1, <2>2 DEF At, Moving
  <2>3. CASE At(p, "committing")
    <3>1. a \in Existing => Ordered(proc[p].base, proc[p].overlay)
      BY <1>4, <2>3 DEF ReadInOrder, At
    <3>2. /\ proc'[p].at = "reverting" /\ proc'[p].area = a
          /\ proc'[p].base = proc[p].base /\ proc'[p].overlay = proc[p].overlay
      BY <2>1, <2>3 DEF SameMemory
    <3>3. Orders(p)'
      BY <3>1, <3>2 DEF Orders, PromotedInOrder, Swaps, At, Moving
    <3>4. Decided(p)'
      BY <3>2 DEF Decided, Makes, At
    <3> QED BY <1>2, <3>3, <3>4 DEF Sorted
  <2> QED BY <2>2, <2>3
<1>11. CASE Revert(p)
  <2>1. /\ At(p, "reverting") /\ Proper(p)
        /\ Called(p, "rebaseUndo", <<<<Base(a), proc[p].base>>, <<Overlay(a), proc[p].overlay>>>>)
    BY <1>0, <1>11, RevertStep DEF Revert
  <2>2. a \in Areas /\ proc[p].at \in Locked \ (Moving \cup {"waiting"})
    BY <1>0, <2>1, LockedFacts DEF At, Locked, Moving
  <2>3. a \in Existing => Ordered(proc[p].base, proc[p].overlay)
    BY <1>4, <2>1 DEF ReadInOrder, At
  <2>4. a \in Existing => WillOrdered(p)'
    BY <1>0, <1>6, <2>1, <2>2, <2>3
  <2> QED BY <2>1, <2>2, <2>4, CalledSorted
<1>12. CASE Finish(p) \/ RecordPromotion(p)
  BY <1>0, <1>3, <1>12, FinishStep, RecordPromotionStep, IdleFields DEF Moving
<1>13. CASE LockPromotion(p)
  BY <1>0, <1>3, <1>13, LockPromotionStep DEF Moving
<1>14. CASE ReplaceSource(p)
  <2>1. At(p, "rebased") /\ Proper(p)
    BY <1>0, <1>14, ReplaceSourceStep
  <2>2. CASE proc'[p].at = "failing"
    BY <1>3, <2>2 DEF Moving
  <2>3. CASE proc'[p].at # "failing"
    <3>1. /\ Called(p, "source", <<<<Src, Read(Overlay(a))>>>>)
          /\ proc'[p].overlay = Read(Overlay(a))
      BY <1>0, <1>14, <2>3, ReplaceSourceStep
    <3>2. /\ a \in Areas /\ proc[p].at \in Locked \ (Moving \cup {"waiting"})
          /\ Overlay(a) \in Dests
      BY <1>0, <2>1, LockedFacts DEF At, Locked, Moving
    <3>3. a \in Existing => tree[Overlay(a)] # Absent /\ proc'[p].overlay = tree[Overlay(a)]
      BY <3>1, <3>2, QuietHere DEF Quiet, Read
    <3>4. a \in Existing => Ordered(proc'[p].overlay, tree[Overlay(a)])
      BY <1>0, <3>2, <3>3, ReadsAreTrees, OrderedSelf
    <3> QED BY <2>1, <3>1, <3>2, <3>3, <3>4, CalledSorted DEF SourceCalls
  <2> QED BY <2>2, <2>3
<1>15. CASE ReplaceBase(p)
  <2>1. /\ At(p, "sourced") /\ Proper(p) /\ proc'[p].overlay = proc[p].overlay
        /\ Called(p, "base", <<<<Base(a), proc[p].overlay>>>>)
    BY <1>0, <1>15, ReplaceBaseStep
  <2>2. /\ a \in Areas /\ proc[p].at \in Locked \ (Moving \cup {"waiting"})
        /\ Base(a) \in Dests /\ Base(a) # Overlay(a)
    BY <1>0, <2>1, LockedFacts DEF At, Locked, Moving
  <2>3. PICK jobs : jobs = <<<<Base(a), proc[p].overlay>>>>
    OBVIOUS
  <2>4. Firsts(jobs) = {Base(a)} /\ Elements(jobs) = {<<Base(a), proc[p].overlay>>}
    BY <1>0, <2>2, <2>3, OneJob
  <2>5. proc'[p].jobs = jobs /\ proc'[p].area = a /\ tree' = tree
    BY <2>1, <2>3 DEF Called, Steady
  <2>6. ASSUME a \in Existing PROVE WillOrdered(p)'
    <3>1. Ordered(proc[p].overlay, tree[Overlay(a)])
      BY <1>5, <2>1, <2>6 DEF PromotedInOrder
    <3>2. \A x : Will(p, Base(a), x)' => x = proc[p].overlay
      BY <2>2, <2>4, <2>5 DEF Will, Pending
    <3>3. \A x : Will(p, Overlay(a), x)' => x = tree[Overlay(a)]
      BY <2>2, <2>4, <2>5 DEF Will, Pending
    <3> QED BY <2>5, <3>1, <3>2, <3>3 DEF WillOrdered
  <2> QED BY <2>1, <2>2, <2>6, CalledSorted
<1>16. CASE Handle(p)
  <2>1. At(p, "handling") /\ Proper(p)
    BY <1>0, <1>16, HandleStep
  <2>2. CASE proc'[p].at = "failing"
    BY <1>3, <2>2 DEF Moving
  <2>3. CASE proc'[p].at # "failing"
    <3>1. Called(p, "sourceUndo", <<<<Src, proc[p].before>>>>)
      BY <1>0, <1>16, <2>3, HandleStep
    <3>2. proc[p].at \in Locked \ (Moving \cup {"waiting"})
      BY <2>1 DEF At, Locked, Moving
    <3> QED BY <2>1, <3>1, <3>2, CalledSorted DEF SourceCalls
  <2> QED BY <2>2, <2>3
<1> QED BY <1>7, <1>8, <1>9, <1>10, <1>11, <1>12, <1>13, <1>14, <1>15, <1>16
        DEF RebaseLocked, PromoteTrees

LEMMA OthersSorted ==
    ASSUME OrderInv, "kill" \notin disturbed', disturbed \subseteq disturbed', NEW p \in Procs,
           CopyTree(p) \/ ImportTree(p) \/ WriteRecord(p) \/ IntegrateTrees(p) \/ Kill(p)
    PROVE  Sorted(p)
<1>0. Inv /\ Decided(p)
  BY DEF OrderInv, AgeInv
<1>1. CASE Kill(p)
  BY <1>0, <1>1, KillStep
<1>2. ASSUME ~ Kill(p) PROVE \A b \in Existing : ~ Moves(p, b)
  BY <1>2 DEF CopyTree, ImportTree, WriteRecord, IntegrateTrees, LockArea, Reconciled, BackUp, Apply,
              NotAccepted, RemoveSource, CopyBackup, At, Moving, Moves, Swaps
<1>3. ASSUME ~ Kill(p), proc'[p].at \notin Moving \cup {"prepared", "committing", "reverting",
                                                        "sourced", "copying", "importing"}
      PROVE  Sorted(p)
  BY <1>2, <1>3, SortedTrivially
<1>4. ASSUME ~ Kill(p), UNCHANGED proc, proc[p].at \in {"copying", "importing"} PROVE Sorted(p)
  <2>1. Decided(p)'
    BY <1>0, <1>4 DEF Decided, Makes, At
  <2>2. Orders(p)'
    BY <1>4 DEF Orders, ReadInOrder, PromotedInOrder, Swaps, At, Moving
  <2> QED BY <1>2, <1>4, <2>1, <2>2 DEF Sorted
<1>5. CASE ~ Kill(p) /\ CopyTree(p)
  BY <1>0, <1>3, <1>4, <1>5, CopyTreeStep DEF At, Moving
<1>6. CASE ~ Kill(p) /\ ImportTree(p)
  BY <1>0, <1>4, <1>6, ImportTreeStep DEF At
<1>7. CASE ~ Kill(p) /\ WriteRecord(p)
  BY <1>0, <1>3, <1>7, WriteRecordStep, IdleFields DEF Moving
<1>8. CASE ~ Kill(p) /\ IntegrateTrees(p)
  <2>1. proc'[p].at \in {"reading", "failing", "integrating", "applying", "entering", "restoring",
                         "removed", "idle"}
    BY <1>0, <1>8, LockAreaStep, ReconciledStep, BackUpStep, ApplyStep, NotAcceptedStep,
       RemoveSourceStep, CopyBackupStep, IdleFields DEF IntegrateTrees
  <2> QED BY <1>3, <1>8, <2>1 DEF Moving
<1> QED BY <1>1, <1>5, <1>6, <1>7, <1>8

\* An area that exists is made by nobody.
LEMMA StartSorted ==
    ASSUME OrderInv, NEW p \in Procs, NEW a \in Areas,
           Rebase(p, a) \/ Promote(p, a) \/ Integrate(p, a) \/ Create(p, a) \/ Migrate(p, a)
    PROVE  Sorted(p) /\ Confined(p) /\ UNCHANGED disturbed
<1>1. PICK o \in {"rebase", "promote", "create", "migrate", "reconcile"},
           at \in {"reading", "waiting", "copying", "importing", "entering"} :
         /\ Started(p, o, a, at) /\ UNCHANGED <<tree, disturbed>>
         /\ at \in {"copying", "importing"} => record[a] = "none"
  BY DEF Rebase, Promote, Integrate, Create, Migrate
<1>2. o \in Operations /\ at \in Phases /\ Types /\ \A b \in Existing : Readable(b)
  BY DEF Operations, Phases, OrderInv, AgeInv, Inv
<1>3. proc'[p].at = at /\ proc'[p].area = a /\ At(p, "idle")
  BY <1>1, <1>2, StartedStep
<1>4. \A b \in Existing : ~ Moves(p, b)
  BY <1>3 DEF Moves, Swaps, At, Moving
<1>5. Decided(p)'
  BY <1>1, <1>2, <1>3 DEF Decided, Makes, At, Readable
<1>6. Orders(p)'
  BY <1>3 DEF Orders, ReadInOrder, PromotedInOrder, Swaps, At, Moving
<1> QED BY <1>1, <1>4, <1>5, <1>6 DEF Sorted, Confined

LEMMA OrderStep == OrderInv /\ [Next]_vars => OrderInv'
<1> SUFFICES ASSUME OrderInv, [Next]_vars PROVE OrderInv'
  OBVIOUS
<1>0. AgeInv /\ Inv
  BY DEF OrderInv, AgeInv
<1>1. ASSUME NEW p \in Procs, Works(p) \/ Kill(p) PROVE OrderInv'
  <2>1. /\ disturbed \subseteq disturbed' /\ Proper(p) /\ Ages(p) /\ Confined(p)
    BY <1>0, <1>1, DisturbedGrows, WorksStep, KillStep, AgesOfWorks, ConfinedStep
  <2>2. ASSUME "kill" \notin disturbed' PROVE Sorted(p)
    <3>1. "kill" \notin disturbed
      BY <2>1, <2>2
    <3> QED BY <1>1, <2>1, <2>2, <3>1, MovingSorted, RebasesSorted, OthersSorted DEF Works
  <2> QED BY <2>1, <2>2, SortedStep
<1>2. ASSUME NEW p \in Procs, NEW a \in Areas,
             Rebase(p, a) \/ Promote(p, a) \/ Integrate(p, a) \/ Create(p, a) \/ Migrate(p, a)
      PROVE  OrderInv'
  <2>1. Proper(p) /\ Ages(p) /\ Confined(p) /\ Sorted(p) /\ disturbed \subseteq disturbed'
    BY <1>0, <1>2, StartSteps, AgesStart, StartSorted
  <2> QED BY <2>1, SortedStep
<1>3. ASSUME NEW e \in Edited, Edit(e[1], e[2]) PROVE OrderInv'
  BY <1>3, EditSorted
<1>4. CASE UNCHANGED vars
  <2>1. AgeInv'
    <3>1. Newest' = Newest
      BY <1>4 DEF vars, counters, Newest
    <3> QED BY <1>0, <1>4, <3>1, InvStep DEF AgeInv, Remembers, vars
  <2>2. UNCHANGED <<tree, record, proc, backups, disturbed>>
    BY <1>4 DEF vars
  <2>3. /\ \A a \in Existing : Readable(a)' = Readable(a) /\ Quiet(a)' = Quiet(a)
        /\ \A p \in Procs : /\ Orders(p)' = Orders(p) /\ Decided(p)' = Decided(p)
                            /\ \A a \in Existing : Moves(p, a)' = Moves(p, a)
    <3>1. ASSUME NEW p \in Procs
          PROVE  /\ ReadInOrder(p)' = ReadInOrder(p) /\ PromotedInOrder(p)' = PromotedInOrder(p)
                 /\ Swaps(p)' = Swaps(p) /\ Swapping(p)' = Swapping(p)
                 /\ Decided(p)' = Decided(p)
      BY <2>2 DEF ReadInOrder, PromotedInOrder, Swaps, Swapping, Decided, Makes, At, Saved,
                  Installed, Undoable, WasOrdered, WillOrdered, Was, Will, Pending
    <3>2. ASSUME NEW p \in Procs PROVE Orders(p)' = Orders(p)
      BY <2>2, <3>1 DEF Orders
    <3> QED BY <2>2, <3>1, <3>2 DEF Readable, Quiet, Moves
  <2> QED BY <2>1, <2>2, <2>3 DEF OrderInv
<1> QED BY <1>1, <1>2, <1>3, <1>4 DEF Next

\* An overlay never has an older content of a file than its base, whichever
\* operations fail and whichever areas are promoted meanwhile, if nobody is
\* killed: what a promotion makes of src/ takes nothing back that src/ had when
\* its area was rebased (_rebase_locked, promote_staging).
THEOREM NothingOldComesBack == ReplacementSpec => []NothingIsReverted
<1>1. Init => OrderInv
  <2> SUFFICES ASSUME Init PROVE OrderInv
    OBVIOUS
  <2>1. AgeInv /\ disturbed = {} /\ \A a \in Existing : Readable(a)
    BY InitAges, ExistingAreAreas DEF Init, Readable
  <2>2. ASSUME NEW a \in Existing PROVE Quiet(a)
    <3>1. /\ a \in Areas /\ Base(a) \in Dests /\ Overlay(a) \in Dests
      BY ExistingAreAreas, DestinationsAreGiven
    <3>2. tree[Base(a)] = InitialSource /\ tree[Overlay(a)] = InitialSource
      BY <3>1 DEF Init
    <3>3. InitialSource \in Trees
      BY TreesAreGiven
    <3> QED BY <3>2, <3>3, AbsentIsNoTree, OrderedSelf DEF Quiet
  <2>3. ASSUME NEW p \in Procs PROVE Orders(p) /\ Decided(p)
    <3>1. proc[p].at = "idle"
      BY IdleFields DEF Init
    <3> QED BY <3>1 DEF Orders, ReadInOrder, PromotedInOrder, Swaps, Decided, Makes, At, Moving
  <2> QED BY <2>1, <2>2, <2>3 DEF OrderInv
<1>2. OrderInv => NothingIsReverted
  <2> SUFFICES ASSUME OrderInv, "kill" \notin disturbed, NEW a \in Existing, NEW f \in Paths,
                      areaLock[a] = Nobody, tree[Base(a)][f] # Missing
               PROVE  tree[Overlay(a)][f] # Missing /\ tree[Overlay(a)][f] >= tree[Base(a)][f]
    BY DEF NothingIsReverted
  <2>1. ASSUME NEW p \in Procs, Moves(p, a) PROVE FALSE
    BY <2>1, LockedFacts, NobodyIsNoProcess DEF Moves, Swaps, Locked, Moving, OrderInv, AgeInv
  <2> QED BY <2>1 DEF OrderInv, Quiet, Ordered
<1> QED BY <1>1, <1>2, OrderStep, PTL DEF ReplacementSpec
==============================================================================
