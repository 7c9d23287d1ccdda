------------------------ MODULE TaskWorkspaceProofs -------------------------
(***************************************************************************)
(* Theorems about TaskWorkspace, for any tasks, processes and limits, with *)
(* mutations that fail and processes that are killed.  Chains, Card and    *)
(* Blocked are about the behaviours in which no proposal takes back what   *)
(* others have written into its task (StandingSpec): the workspace lock of *)
(* a proposal does not exclude the task locks of the other commands.       *)
(* Durable is about every behaviour of commands that are not proposals.    *)
(* Those about one active task assume that nothing is rolled back (Calm).  *)
(***************************************************************************)
EXTENDS TaskWorkspace, SequenceTheorems, FiniteSetTheorems, TLAPS

(***************************************************************************)
(* Sequences of events                                                     *)
(***************************************************************************)
LEMMA NoEvents == << >> \in Seq(Events) /\ Len(<< >>) = 0
BY EmptySeq

LEMMA LastOf ==
  ASSUME NEW c \in Seq(Events), c # << >>
  PROVE  Last(c) \in Events /\ Len(c) \in Nat \ {0} /\ DOMAIN c = 1 .. Len(c)
<1>1. Len(c) \in Nat \ {0} /\ DOMAIN c = 1 .. Len(c) /\ c[Len(c)] \in Events
  BY EmptySeq, LenProperties
<1>2. QED
  BY <1>1 DEF Last

LEMMA FrontOf ==
  ASSUME NEW c \in Seq(Events), c # << >>
  PROVE  Front(c) \in Seq(Events)
<1>1. Len(c) \in Nat \ {0} /\ \A i \in 1 .. Len(c) : c[i] \in Events
  BY EmptySeq, LenProperties
<1>2. 1 \in Int /\ Len(c) - 1 \in Int /\ \A i \in 1 .. Len(c) - 1 : c[i] \in Events
  BY <1>1
<1>3. QED
  BY <1>2, SubSeqProperties DEF Front

LEMMA SpecTypes ==
  \A spec \in EventSpecs : spec[1] \in EventTypes /\ spec[3] \in Statuses
BY DEF EventSpecs, EventTypes, Ending, Statuses, Open, Terminal

\* The event a command writes is an event record, whatever chain it has read.
LEMMA NewEventType ==
  ASSUME NEW p \in Procs \cup {NoProc}, NEW c \in Seq(Events),
         NEW type \in EventTypes, NEW to \in Statuses
  PROVE  NewEvent(p, c, type, to) \in Events
<1>1. Status(c) \in Statuses \cup {"none"}
  BY LastOf DEF Status, Events
<1>2. RecordDigest(c) \in Heads
  <2>1. CASE c = << >>
    BY <2>1 DEF RecordDigest, NoHead, Heads
  <2>2. CASE c # << >>
    BY <2>2, LastOf DEF RecordDigest, Events, Heads
  <2>3. QED
    BY <2>1, <2>2
<1>3. Len(c) + 1 \in Nat
  BY LenProperties
<1>4. QED
  BY <1>1, <1>2, <1>3 DEF NewEvent, Events

-----------------------------------------------------------------------------
(***************************************************************************)
(* Typing                                                                  *)
(***************************************************************************)
Commands == [type : EventTypes, task : Tasks, to : Statuses]

\* A process that is not idle has a command; who is killed outside of a
\* transaction leaves nothing behind.
TypeInv ==
  /\ TypeOK
  /\ \A p \in Procs : pc[p] # "idle" => op[p] \in Commands
  /\ \A p \in dead : InTransaction(p)

LEMMA ProposalTypes ==
  "proposal" \in EventTypes /\ "AWAITING_OWNER_APPROVAL" \in Statuses
<1>1. <<"proposal", "none", "AWAITING_OWNER_APPROVAL">> \in EventSpecs
  BY DEF EventSpecs
<1>2. QED
  BY <1>1, SpecTypes DEF EventTypes

LEMMA TypeInit == Init => TypeInv
<1> SUFFICES ASSUME Init PROVE TypeInv
  OBVIOUS
<1>1. FirstProposal \in Events
  BY NewEventType, NoEvents, ProposalTypes DEF FirstProposal
<1>2. <<FirstProposal>> \in Seq(Events) /\ << >> \in Seq(Events)
  BY <1>1, NoEvents
<1>3. events \in [Tasks -> Seq(Events)]
  BY <1>2 DEF Init
<1>4. card \in [Tasks -> Nat]
  BY <1>3, LenProperties DEF Init
<1>5. QED
  BY <1>2, <1>3, <1>4, TaskAssumption DEF Init, TypeInv, TypeOK

\* What Return leaves behind.
LEMMA ReturnTypes ==
  ASSUME TypeInv, NEW p \in Procs, Return(p)
  PROVE  /\ pc' = [pc EXCEPT ![p] = "idle"]
         /\ pc'[p] = "idle"
         /\ op' \in [Procs -> Commands \cup {<< >>}]
         /\ \A q \in Procs : pc'[q] # "idle" => op'[q] \in Commands
         /\ chain' \in [Procs -> Seq(Events)]
BY NoEvents DEF TypeInv, TypeOK, Return, Commands

LEMMA BeginTypes == ASSUME TypeInv, NEW p \in Procs, Begin(p) PROVE TypeInv'
<1> USE DEF InTransaction
<1>1. ASSUME NEW t \in Tasks, NEW spec \in EventSpecs, Load(p, t, spec[1], spec[3])
      PROVE  TypeInv'
  <2>1. [type |-> spec[1], task |-> t, to |-> spec[3]] \in Commands
    BY SpecTypes DEF Commands
  <2>2. events[t] \in Seq(Events)
    BY DEF TypeInv, TypeOK
  <2>3. QED
    BY <1>1, <2>1, <2>2 DEF Load, Goto, TypeInv, TypeOK, tree, Commands
<1>2. ASSUME NEW t \in Tasks, Digest(p, t)
      PROVE  TypeInv'
  <2>1. [type |-> "proposal", task |-> t, to |-> "AWAITING_OWNER_APPROVAL"] \in Commands
    BY ProposalTypes DEF Commands
  <2>2. QED
    BY <1>2, <2>1 DEF Digest, Goto, TypeInv, TypeOK, tree, Commands
<1>3. QED
  BY <1>1, <1>2 DEF Begin

LEMMA CopyTypes ==
  ASSUME TypeInv, NEW p \in Procs, StartCopy(p) \/ CopyRefused(p) \/ FinishCopy(p) \/ CleanUp(p)
  PROVE  TypeInv'
<1> USE DEF InTransaction
<1>1. CASE StartCopy(p)
  BY <1>1 DEF StartCopy, Goto, TypeInv, TypeOK, mine, TaskOf, Commands
<1>2. CASE CopyRefused(p)
  <2>1. p \notin dead
    BY <1>2 DEF CopyRefused, TypeInv
  <2>2. UNCHANGED <<events, card, result, evidence, partial, lock, dead, committed>> /\ Return(p)
    BY <1>2 DEF CopyRefused, tree
  <2>3. QED
    BY <2>1, <2>2, ReturnTypes, ZenonT(40) DEF TypeInv, TypeOK, Commands
<1>3. CASE FinishCopy(p)
  BY <1>3 DEF FinishCopy, Goto, TypeInv, TypeOK, mine, TaskOf, Commands
<1>4. CASE CleanUp(p)
  <2>1. /\ p \notin dead /\ Return(p)
        /\ UNCHANGED <<events, card, evidence, partial, lock, dead, committed>>
    BY <1>4 DEF CleanUp
  <2>2. result' \in [Tasks -> Procs \cup {NoProc}]
    BY <1>4 DEF CleanUp, TypeInv, TypeOK
  <2>3. QED
    BY <2>1, <2>2, ReturnTypes, ZenonT(40) DEF TypeInv, TypeOK, Commands
<1>5. QED
  BY <1>1, <1>2, <1>3, <1>4

LEMMA RestoreTypes ==
  ASSUME TypeInv, NEW p \in Procs, pc[p] # "idle", RestoreTask(p)
  PROVE  /\ events' \in [Tasks -> Seq(Events)]
         /\ card' \in [Tasks -> Nat]
         /\ evidence' \in [Tasks -> Nat]
         /\ UNCHANGED <<result, partial>>
<1> DEFINE t == TaskOf(p)
<1>1. t \in Tasks /\ events[t] \in Seq(Events) /\ chain[p] \in Seq(Events)
  BY DEF TypeInv, TypeOK, TaskOf, Commands
<1>2. /\ Len(chain[p]) \in Nat
      /\ events[t] # << >> => Front(events[t]) \in Seq(Events)
  BY <1>1, FrontOf, LenProperties
<1>3. QED
  BY <1>1, <1>2 DEF RestoreTask, TypeInv, TypeOK, TaskOf

LEMMA AppendTypes ==
  ASSUME TypeInv, NEW p \in Procs,
         \/ OpenTransaction(p) \/ Refused(p) \/ CopyEvidence(p) \/ WriteEvent(p)
         \/ WriteCard(p) \/ Commit(p) \/ Abort(p)
  PROVE  TypeInv'
<1> USE DEF InTransaction
<1>1. CASE OpenTransaction(p)
  BY <1>1 DEF OpenTransaction, Goto, Take, TypeInv, TypeOK, tree, mine, TaskOf, Commands
<1>2. CASE Refused(p)
  BY <1>2, ReturnTypes, ZenonT(40) DEF Refused, TypeInv, TypeOK, tree, Commands
<1>3. CASE CopyEvidence(p)
  BY <1>3 DEF CopyEvidence, Goto, TypeInv, TypeOK, mine, TaskOf, Commands
<1>4. CASE WriteEvent(p)
  <2> DEFINE e == NewEvent(p, chain[p], op[p].type, op[p].to)
  <2>1. op[p] \in Commands /\ TaskOf(p) \in Tasks /\ chain[p] \in Seq(Events)
    BY <1>4 DEF WriteEvent, Goto, TypeInv, TypeOK, TaskOf, Commands
  <2>2. e \in Events
    BY <2>1, NewEventType DEF Commands
  <2>3. Append(events[TaskOf(p)], e) \in Seq(Events)
    BY <2>1, <2>2 DEF TypeInv, TypeOK
  <2> HIDE DEF e
  <2>4. events' = [events EXCEPT ![TaskOf(p)] = Append(@, e)]
    BY <1>4 DEF WriteEvent, e
  <2>5. events' \in [Tasks -> Seq(Events)]
    BY <2>3, <2>4 DEF TypeInv, TypeOK
  <2>6. pc' = [pc EXCEPT ![p] = "written"] /\ pc[p] # "idle"
    BY <1>4 DEF WriteEvent, Goto
  <2>7. QED
    BY <1>4, <2>5, <2>6 DEF WriteEvent, TypeInv, TypeOK, mine
<1>5. CASE WriteCard(p)
  <2>1. Len(events[TaskOf(p)]) \in Nat
    BY <1>5, LenProperties DEF WriteCard, Goto, TypeInv, TypeOK, TaskOf, Commands
  <2>2. QED
    BY <1>5, <2>1 DEF WriteCard, Goto, TypeInv, TypeOK, mine, TaskOf, Commands
<1>6. CASE Commit(p)
  <2>1. TaskOf(p) \in Tasks /\ events[TaskOf(p)] \in Seq(Events)
    BY <1>6 DEF Commit, TypeInv, TypeOK, TaskOf, Commands
  <2>2. QED
    BY <1>6, <2>1, ReturnTypes, ZenonT(40) DEF Commit, Release, TypeInv, TypeOK, tree, Commands
<1>7. CASE Abort(p)
  <2>1. pc[p] # "idle" /\ TaskOf(p) \in Tasks
    BY <1>7 DEF Abort, TypeInv, TypeOK, TaskOf, Commands
  <2>2. /\ events' \in [Tasks -> Seq(Events)] /\ card' \in [Tasks -> Nat]
        /\ evidence' \in [Tasks -> Nat] /\ UNCHANGED <<result, partial>>
    BY <1>7, <2>1, RestoreTypes DEF Abort
  <2>3. lock' \in [Tasks \cup {Workspace} -> Procs \cup {NoProc}]
    BY <1>7 DEF Abort, Release, TypeInv, TypeOK
  <2>4. p \notin dead /\ UNCHANGED <<dead, committed>>
    BY <1>7 DEF Abort
  <2>5. CASE Goto(p, pc[p], "cleanup") /\ UNCHANGED mine
    BY <2>1, <2>2, <2>3, <2>4, <2>5 DEF Goto, mine, TypeInv, TypeOK
  <2>6. CASE Return(p)
    <3>1. /\ pc' = [pc EXCEPT ![p] = "idle"]
          /\ op' \in [Procs -> Commands \cup {<< >>}] /\ chain' \in [Procs -> Seq(Events)]
          /\ \A q \in Procs : pc'[q] # "idle" => op'[q] \in Commands
      BY <2>6, ReturnTypes
    <3>2. QED
      BY <2>2, <2>3, <2>4, <3>1 DEF TypeInv, TypeOK, Commands
  <2>7. QED
    BY <1>7, <2>5, <2>6 DEF Abort
<1>8. QED
  BY <1>1, <1>2, <1>3, <1>4, <1>5, <1>6, <1>7

LEMMA RemoveTypes ==
  ASSUME TypeInv, NEW p \in Procs, RemoveTask(p)
  PROVE  /\ events' \in [Tasks -> Seq(Events)] /\ card' \in [Tasks -> Nat]
         /\ result' \in [Tasks -> Procs \cup {NoProc}] /\ evidence' \in [Tasks -> Nat]
         /\ partial' \in [Tasks -> SUBSET Procs]
<1> USE DEF TypeInv, TypeOK
<1>1. CASE pc[p] = "created"
  <2>1. /\ events' = [events EXCEPT ![TaskOf(p)] = << >>]
        /\ card' = [card EXCEPT ![TaskOf(p)] = 0]
        /\ result' = [result EXCEPT ![TaskOf(p)] = NoProc]
        /\ evidence' = [evidence EXCEPT ![TaskOf(p)] = 0]
        /\ partial' = [partial EXCEPT ![TaskOf(p)] = {}]
    BY <1>1 DEF RemoveTask
  <2>2. QED
    BY <2>1, NoEvents
<1>2. CASE pc[p] # "created"
  BY <1>2 DEF RemoveTask, tree
<1>3. QED
  BY <1>1, <1>2

LEMMA ProposeTypes ==
  ASSUME TypeInv, NEW p \in Procs,
         \/ OpenProposal(p) \/ ProposalRefused(p) \/ EnsureSingleActive(p) \/ CreateTask(p)
         \/ CommitProposal(p) \/ AbortProposal(p)
  PROVE  TypeInv'
<1> USE DEF InTransaction
<1>1. CASE OpenProposal(p)
  BY <1>1 DEF OpenProposal, Goto, Take, TypeInv, TypeOK, tree, mine, Commands
<1>2. CASE ProposalRefused(p)
  <2>1. p \notin dead
    BY <1>2 DEF ProposalRefused, TypeInv
  <2>2. UNCHANGED <<events, card, result, evidence, partial, lock, dead, committed>> /\ Return(p)
    BY <1>2 DEF ProposalRefused, tree
  <2>3. QED
    BY <2>1, <2>2, ReturnTypes, ZenonT(40) DEF TypeInv, TypeOK, Commands
<1>3. CASE EnsureSingleActive(p)
  BY <1>3 DEF EnsureSingleActive, Goto, TypeInv, TypeOK, tree, mine, Commands
<1>4. CASE CreateTask(p)
  <2> DEFINE e == NewEvent(p, << >>, "proposal", op[p].to)
  <2>1. op[p] \in Commands
    BY <1>4 DEF CreateTask, Goto, TypeInv
  <2>2. e \in Events
    BY <2>1, NewEventType, NoEvents, ProposalTypes DEF Commands
  <2> HIDE DEF e
  <2>3. <<e>> \in Seq(Events)
    BY <2>2
  <2>4. events' = [events EXCEPT ![TaskOf(p)] = <<e>>]
    BY <1>4 DEF CreateTask, e
  <2>5. QED
    BY <1>4, <2>1, <2>3, <2>4 DEF CreateTask, Goto, TypeInv, TypeOK, mine
<1>5. CASE CommitProposal(p)
  <2>1. TaskOf(p) \in Tasks /\ events[TaskOf(p)] \in Seq(Events) /\ events[TaskOf(p)] # << >>
    BY <1>5 DEF CommitProposal, TypeInv, TypeOK, TaskOf, Commands
  <2>2. <<Head(events[TaskOf(p)])>> \in Seq(Events)
    BY <2>1, HeadTailProperties
  <2>3. committed' \in [Tasks -> Seq(Events)]
    <3> DEFINE c == IF committed[TaskOf(p)] = << >> THEN <<Head(events[TaskOf(p)])>>
                    ELSE committed[TaskOf(p)]
    <3>1. committed \in [Tasks -> Seq(Events)] /\ c \in Seq(Events)
      BY <2>1, <2>2 DEF TypeInv, TypeOK
    <3>2. committed' = [committed EXCEPT ![TaskOf(p)] = c]
      BY <1>5 DEF CommitProposal
    <3> HIDE DEF c
    <3>3. QED
      BY <3>1, <3>2
  <2>4. lock' \in [Tasks \cup {Workspace} -> Procs \cup {NoProc}] /\ p \notin dead
    BY <1>5 DEF CommitProposal, Release, TypeInv, TypeOK
  <2>5. /\ pc' = [pc EXCEPT ![p] = "idle"]
        /\ op' \in [Procs -> Commands \cup {<< >>}] /\ chain' \in [Procs -> Seq(Events)]
        /\ \A q \in Procs : pc'[q] # "idle" => op'[q] \in Commands
    BY <1>5, ReturnTypes DEF CommitProposal
  <2>6. QED
    BY <1>5, <2>3, <2>4, <2>5 DEF CommitProposal, TypeInv, TypeOK, tree, Commands
<1>6. CASE AbortProposal(p)
  <2>1. /\ events' \in [Tasks -> Seq(Events)] /\ card' \in [Tasks -> Nat]
        /\ result' \in [Tasks -> Procs \cup {NoProc}] /\ evidence' \in [Tasks -> Nat]
        /\ partial' \in [Tasks -> SUBSET Procs]
    BY <1>6, RemoveTypes DEF AbortProposal
  <2>2. lock' \in [Tasks \cup {Workspace} -> Procs \cup {NoProc}] /\ p \notin dead
    BY <1>6 DEF AbortProposal, Release, TypeInv, TypeOK
  <2>3. /\ pc' = [pc EXCEPT ![p] = "idle"]
        /\ op' \in [Procs -> Commands \cup {<< >>}] /\ chain' \in [Procs -> Seq(Events)]
        /\ \A q \in Procs : pc'[q] # "idle" => op'[q] \in Commands
    BY <1>6, ReturnTypes DEF AbortProposal
  <2>4. QED
    BY <1>6, <2>1, <2>2, <2>3 DEF AbortProposal, TypeInv, TypeOK, Commands
<1>7. QED
  BY <1>1, <1>2, <1>3, <1>4, <1>5, <1>6

LEMMA CrashTypes ==
  ASSUME TypeInv, NEW p \in Procs, Crash(p) \/ Recover(p)
  PROVE  TypeInv'
<1> USE DEF InTransaction
<1>1. CASE Crash(p)
  <2>1. CASE InTransaction(p)
    BY <1>1, <2>1 DEF Crash, TypeInv, TypeOK, tree, mine
  <2>2. CASE ~InTransaction(p)
    <3>1. UNCHANGED <<events, card, result, evidence, partial, lock, dead, committed>> /\ Return(p)
      BY <1>1, <2>2 DEF Crash, tree
    <3>2. p \notin dead
      BY <1>1 DEF Crash
    <3>3. QED
      BY <3>1, <3>2, ReturnTypes, ZenonT(40) DEF TypeInv, TypeOK, Commands
  <2>3. QED
    BY <2>1, <2>2
<1>2. CASE Recover(p)
  <2>1. pc[p] # "idle"
    BY <1>2 DEF Recover, TypeInv
  <2>2. /\ events' \in [Tasks -> Seq(Events)] /\ card' \in [Tasks -> Nat]
        /\ result' \in [Tasks -> Procs \cup {NoProc}] /\ evidence' \in [Tasks -> Nat]
        /\ partial' \in [Tasks -> SUBSET Procs]
    <3>1. CASE RestoreTask(p)
      BY <2>1, <3>1, RestoreTypes DEF TypeInv, TypeOK
    <3>2. CASE RemoveTask(p)
      BY <3>2, RemoveTypes
    <3>3. QED
      BY <1>2, <3>1, <3>2 DEF Recover
  <2>3. lock' \in [Tasks \cup {Workspace} -> Procs \cup {NoProc}]
    BY <1>2 DEF Recover, Release, TypeInv, TypeOK
  <2>4. dead' = dead \ {p} /\ committed' = committed /\ Return(p)
    BY <1>2 DEF Recover
  <2>5. /\ pc' = [pc EXCEPT ![p] = "idle"]
        /\ op' \in [Procs -> Commands \cup {<< >>}] /\ chain' \in [Procs -> Seq(Events)]
        /\ \A q \in Procs : pc'[q] # "idle" => op'[q] \in Commands
    BY <2>4, ReturnTypes
  <2>6. QED
    BY <2>2, <2>3, <2>4, <2>5 DEF TypeInv, TypeOK, Commands
<1>3. QED
  BY <1>1, <1>2

LEMMA TypeInvariant == Spec => []TypeInv
<1>1. TypeInv /\ [Next]_vars => TypeInv'
  <2> SUFFICES ASSUME TypeInv, [Next]_vars PROVE TypeInv'
    OBVIOUS
  <2>1. CASE UNCHANGED vars
    BY <2>1 DEF vars, tree, mine, TypeInv, TypeOK, InTransaction
  <2>2. ASSUME NEW p \in Procs, Begin(p) \/ Step(p) \/ Crash(p) \/ Recover(p)
        PROVE  TypeInv'
    BY <2>2, BeginTypes, CopyTypes, AppendTypes, ProposeTypes, CrashTypes DEF Step
  <2>3. QED
    BY <2>1, <2>2 DEF Next
<1>2. QED
  BY TypeInit, <1>1, PTL DEF Spec

\* Every variable keeps its type: no command reads a chain that is no longer
\* there, or counts evidence below zero, whatever fails or is killed.
THEOREM Typing == Spec => []TypeOK
BY TypeInvariant, PTL DEF TypeInv

-----------------------------------------------------------------------------
(***************************************************************************)
(* Chains that grow and shrink by one event                                *)
(***************************************************************************)
LEMMA PrefixOfAppend ==
  ASSUME NEW c \in Seq(Events), NEW e \in Events, NEW n \in 0 .. Len(c)
  PROVE  SubSeq(Append(c, e), 1, n) = SubSeq(c, 1, n) /\ SubSeq(c, 1, Len(c)) = c
<1> DEFINE d == Append(c, e)
<1>1. /\ Len(c) \in Nat /\ d \in Seq(Events) /\ Len(d) = Len(c) + 1
      /\ \A i \in 1 .. Len(c) : d[i] = c[i] /\ c[i] \in Events
  BY AppendProperties, LenProperties
<1> HIDE DEF d
<1>2. /\ SubSeq(d, 1, n) \in Seq(Events) /\ Len(SubSeq(d, 1, n)) = n
      /\ \A i \in 1 .. n : SubSeq(d, 1, n)[i] = d[i]
  <2>1. 1 \in Int /\ n \in Int /\ \A i \in 1 .. n : d[i] \in Events
    BY <1>1
  <2>2. QED
    BY <2>1, SubSeqProperties
<1>3. \A k \in 0 .. Len(c) :
        /\ SubSeq(c, 1, k) \in Seq(Events) /\ Len(SubSeq(c, 1, k)) = k
        /\ \A i \in 1 .. k : SubSeq(c, 1, k)[i] = c[i]
  <2> TAKE k \in 0 .. Len(c)
  <2>1. 1 \in Int /\ k \in Int /\ \A i \in 1 .. k : c[i] \in Events
    BY <1>1
  <2>2. QED
    BY <2>1, SubSeqProperties
<1>4. SubSeq(d, 1, n) = SubSeq(c, 1, n)
  <2>1. \A i \in 1 .. n : d[i] = c[i]
    BY <1>1
  <2>2. QED
    BY <1>2, <1>3, <2>1, SeqEqual
<1>5. SubSeq(c, 1, Len(c)) = c
  BY <1>1, <1>3, SeqEqual
<1>6. QED
  BY <1>4, <1>5 DEF d

LEMMA FrontOfAppend ==
  ASSUME NEW c \in Seq(Events), NEW e \in Events
  PROVE  /\ Append(c, e) # << >> /\ Front(Append(c, e)) = c
         /\ IsPrefix(c, Append(c, e)) /\ IsPrefix(c, c)
<1>1. Len(c) \in Nat /\ Len(Append(c, e)) = Len(c) + 1 /\ Append(c, e) # << >>
  BY AppendProperties, LenProperties
<1>2. SubSeq(Append(c, e), 1, Len(c)) = c /\ SubSeq(c, 1, Len(c)) = c
  BY <1>1, PrefixOfAppend
<1>3. (Len(c) + 1) - 1 = Len(c) /\ Len(c) <= Len(c) + 1 /\ Len(c) <= Len(c)
  BY <1>1
<1>4. QED
  BY <1>1, <1>2, <1>3 DEF Front, IsPrefix

\* A legal event built on a valid chain extends it to a valid chain.
LEMMA AppendedIsValid ==
  ASSUME NEW c \in Seq(Events), ValidChain(c), NEW p \in Procs \cup {NoProc},
         NEW type \in EventTypes, NEW to \in Statuses,
         <<type, Status(c), to>> \in EventSpecs
  PROVE  ValidChain(Append(c, NewEvent(p, c, type, to)))
<1> DEFINE e == NewEvent(p, c, type, to)
           d == Append(c, e)
<1>1. e \in Events
  BY NewEventType
<1>2. /\ e.number = Len(c) + 1 /\ e.type = type /\ e.from = Status(c) /\ e.to = to
      /\ e.head = RecordDigest(c)
  BY DEF NewEvent
<1> HIDE DEF e
<1>3. /\ Len(c) \in Nat /\ DOMAIN c = 1 .. Len(c) /\ DOMAIN d = 1 .. Len(c) + 1
      /\ d[Len(c) + 1] = e /\ \A i \in 1 .. Len(c) : d[i] = c[i]
  BY <1>1, AppendProperties, LenProperties
<1>4. \A n \in 0 .. Len(c) : SubSeq(d, 1, n) = SubSeq(c, 1, n) /\ SubSeq(c, 1, Len(c)) = c
  BY <1>1, PrefixOfAppend
<1> HIDE DEF d
<1>5. ASSUME NEW i \in 1 .. Len(c) PROVE FollowsOn(d, i)
  <2>1. FollowsOn(c, i) /\ d[i] = c[i] /\ SubSeq(d, 1, i - 1) = SubSeq(c, 1, i - 1)
    BY <1>3, <1>4 DEF ValidChain
  <2>2. QED
    BY <2>1 DEF FollowsOn
<1>6. FollowsOn(d, Len(c) + 1)
  <2>1. SubSeq(d, 1, (Len(c) + 1) - 1) = c
    BY <1>3, <1>4
  <2>2. QED
    BY <1>2, <1>3, <2>1 DEF FollowsOn
<1>7. ValidChain(d)
  BY <1>3, <1>5, <1>6 DEF ValidChain
<1>8. QED
  BY <1>7 DEF d, e

-----------------------------------------------------------------------------
(***************************************************************************)
(* The inductive invariant.  The lock of a task is held exactly during a   *)
(* transaction on it, and its event files are the chain that transaction   *)
(* has read, or that and its one event, which was built on it.  A proposal *)
(* holds another lock: while it is not committed others may write into its *)
(* task, so the committed chain may still be empty where one event is.     *)
(***************************************************************************)
Inside == {"open", "copied", "written", "viewed"}
Proposing == {"digested", "proposing", "checked", "created"}

\* A command is a proposal or has read a chain.
ItsCommand(p) ==
  pc[p] # "idle" =>
    IF pc[p] \in Proposing
    THEN op[p].type = "proposal" /\ op[p].to = "AWAITING_OWNER_APPROVAL"
    ELSE op[p].type # "proposal" /\ chain[p] # << >>

Held ==
  /\ \A p \in Procs : ItsCommand(p)
  /\ \A p \in Procs : pc[p] \in Inside => lock[TaskOf(p)] = p
  /\ \A t \in Tasks, p \in Procs : lock[t] = p => pc[p] \in Inside /\ TaskOf(p) = t

\* Chain c of task t is committed, or is its proposal only.
Backed(t, c) == committed[t] = c \/ (committed[t] = << >> /\ Len(c) = 1)

Resting(t) == Backed(t, events[t]) /\ ValidChain(events[t])

Extended(p) ==
  /\ events[TaskOf(p)] = Append(chain[p], NewEvent(p, chain[p], op[p].type, op[p].to))
  /\ <<op[p].type, Status(chain[p]), op[p].to>> \in EventSpecs

Builds(p) ==
  /\ Backed(TaskOf(p), chain[p]) /\ ValidChain(chain[p])
  /\ IF pc[p] \in {"open", "copied"} THEN events[TaskOf(p)] = chain[p] ELSE Extended(p)

OnDisk ==
  /\ \A p \in Procs : pc[p] \in Inside => Builds(p)
  /\ \A t \in Tasks : lock[t] = NoProc => Resting(t)

ChainInv == TypeInv /\ Held /\ OnDisk

LEMMA ProposalIsValid ==
  ASSUME NEW p \in Procs \cup {NoProc}
  PROVE  LET c == <<NewEvent(p, << >>, "proposal", "AWAITING_OWNER_APPROVAL")>>
         IN ValidChain(c) /\ Len(c) = 1
<1> DEFINE e == NewEvent(p, << >>, "proposal", "AWAITING_OWNER_APPROVAL")
<1>1. <<e>>[1] = e /\ DOMAIN <<e>> = {1}
  OBVIOUS
<1>2. SubSeq(<<e>>, 1, 1 - 1) = << >>
  BY SubSeqEmpty
<1>3. /\ e.number = 1 /\ e.type = "proposal" /\ e.from = Status(<< >>)
      /\ e.head = RecordDigest(<< >>) /\ e.to = "AWAITING_OWNER_APPROVAL"
      /\ Status(<< >>) = "none"
  BY NoEvents DEF NewEvent, Status
<1> HIDE DEF e
<1>4. ValidChain(<<e>>)
  BY <1>1, <1>2, <1>3 DEF ValidChain, FollowsOn, EventSpecs
<1>5. QED
  BY <1>4 DEF e

LEMMA InitChain == Init => Held /\ OnDisk
<1> SUFFICES ASSUME Init PROVE Held /\ OnDisk
  OBVIOUS
<1>1. ValidChain(<< >>)
  BY DEF ValidChain
<1>2. ValidChain(<<FirstProposal>>)
  BY ProposalIsValid DEF FirstProposal
<1>3. QED
  BY <1>1, <1>2, TaskAssumption DEF Init, Held, ItsCommand, OnDisk, Resting, Backed, Inside

\* A step of one process touches one task: nobody else is in a transaction on
\* it, or that transaction does not notice.
LEMMA OneTask ==
  ASSUME ChainInv, NEW p \in Procs, NEW t \in Tasks,
         \A q \in Procs \ {p} : pc'[q] = pc[q] /\ op'[q] = op[q] /\ chain'[q] = chain[q],
         \A u \in Tasks \ {t} : /\ events'[u] = events[u] /\ committed'[u] = committed[u]
                                /\ lock'[u] = lock[u],
         pc[p] \in Inside => TaskOf(p) = t,
         ItsCommand(p)',
         \/ /\ lock[t] \in {p, NoProc}
            /\ IF pc'[p] \in Inside
               THEN lock'[t] = p /\ TaskOf(p)' = t /\ Builds(p)'
               ELSE lock'[t] = NoProc /\ Resting(t)'
         \/ /\ lock[t] \notin {p, NoProc} /\ pc'[p] \notin Inside
            /\ lock'[t] = lock[t] /\ events'[t] = events[t]
            /\ \A q \in Procs : lock[t] = q => Backed(t, chain[q])'
  PROVE  Held' /\ OnDisk'
<1>1. \A q \in Procs \ {p} : TaskOf(q)' = TaskOf(q) /\ (ItsCommand(q)' <=> ItsCommand(q))
  BY DEF TaskOf, ItsCommand
<1>2. \A q \in Procs : pc[q] \in Inside => TaskOf(q) \in Tasks /\ lock[TaskOf(q)] = q
  BY DEF ChainInv, TypeInv, Held, TaskOf, Commands, Inside
<1>3. Held'
  <2>1. \A q \in Procs : ItsCommand(q)'
    BY <1>1 DEF ChainInv, Held
  <2>2. ASSUME NEW q \in Procs, pc'[q] \in Inside PROVE lock'[TaskOf(q)'] = q
    <3>1. CASE q = p
      BY <2>2, <3>1
    <3>2. CASE q # p
      <4>1. pc[q] \in Inside /\ TaskOf(q)' = TaskOf(q) /\ TaskOf(q) \in Tasks
        BY <1>1, <1>2, <2>2, <3>2
      <4>2. CASE TaskOf(q) = t
        BY <1>2, <3>2, <4>1, <4>2, TaskAssumption
      <4>3. CASE TaskOf(q) # t
        BY <1>2, <4>1, <4>3
      <4>4. QED
        BY <4>2, <4>3
    <3>3. QED
      BY <3>1, <3>2
  <2>3. ASSUME NEW u \in Tasks, NEW q \in Procs, lock'[u] = q
        PROVE  pc'[q] \in Inside /\ TaskOf(q)' = u
    <3>1. CASE u = t
      <4>1. CASE lock[t] \in {p, NoProc}
        BY <2>3, <3>1, <4>1, TaskAssumption
      <4>2. CASE lock[t] \notin {p, NoProc}
        <5>1. lock[t] = q /\ q # p
          BY <2>3, <3>1, <4>2
        <5>2. pc[q] \in Inside /\ TaskOf(q) = t
          BY <5>1 DEF ChainInv, Held
        <5>3. QED
          BY <1>1, <3>1, <5>1, <5>2
      <4>3. QED
        BY <4>1, <4>2
    <3>2. CASE u # t
      <4>1. lock[u] = q
        BY <2>3, <3>2
      <4>2. pc[q] \in Inside /\ TaskOf(q) = u
        BY <4>1 DEF ChainInv, Held
      <4>3. q # p
        BY <3>2, <4>2
      <4>4. QED
        BY <1>1, <4>2, <4>3
    <3>3. QED
      BY <3>1, <3>2
  <2>4. QED
    BY <2>1, <2>2, <2>3 DEF Held
<1>4. OnDisk'
  <2>1. ASSUME NEW q \in Procs, pc'[q] \in Inside PROVE Builds(q)'
    <3>1. CASE q = p
      BY <2>1, <3>1
    <3>2. CASE q # p
      <4>1. /\ pc[q] \in Inside /\ pc'[q] = pc[q] /\ op'[q] = op[q] /\ chain'[q] = chain[q]
            /\ TaskOf(q)' = TaskOf(q) /\ TaskOf(q) \in Tasks /\ lock[TaskOf(q)] = q
        BY <1>1, <1>2, <2>1, <3>2
      <4>2. Builds(q)
        BY <4>1 DEF ChainInv, OnDisk
      <4>3. events'[TaskOf(q)] = events[TaskOf(q)] /\ Backed(TaskOf(q), chain[q])'
        <5>1. CASE TaskOf(q) = t
          <6>1. lock[t] = q /\ lock[t] \notin {p, NoProc}
            BY <3>2, <4>1, <5>1, TaskAssumption
          <6>2. events'[t] = events[t] /\ Backed(t, chain[q])'
            BY <6>1
          <6>3. QED
            BY <4>1, <5>1, <6>2 DEF Backed
        <5>2. CASE TaskOf(q) # t
          BY <4>1, <4>2, <5>2 DEF Builds, Backed
        <5>3. QED
          BY <5>1, <5>2
      <4>4. QED
        BY <4>1, <4>2, <4>3 DEF Builds, Extended
    <3>3. QED
      BY <3>1, <3>2
  <2>2. ASSUME NEW u \in Tasks, lock'[u] = NoProc PROVE Resting(u)'
    <3>1. CASE u = t
      BY <2>2, <3>1, TaskAssumption
    <3>2. CASE u # t
      BY <2>2, <3>2 DEF ChainInv, OnDisk, Resting, Backed
    <3>3. QED
      BY <3>1, <3>2
  <2>3. QED
    BY <2>1, <2>2 DEF OnDisk
<1>5. QED
  BY <1>3, <1>4

\* A process that neither enters nor leaves a transaction disturbs nothing.
LEMMA Outside ==
  ASSUME ChainInv, NEW p \in Procs, NEW t \in Tasks,
         pc[p] \notin Inside, pc'[p] \notin Inside, ItsCommand(p)',
         UNCHANGED <<events, committed>>, \A u \in Tasks : lock'[u] = lock[u],
         \A q \in Procs \ {p} : pc'[q] = pc[q] /\ op'[q] = op[q] /\ chain'[q] = chain[q]
  PROVE  Held' /\ OnDisk'
<1>1. lock[t] # p
  BY DEF ChainInv, Held
<1>2. CASE lock[t] = NoProc
  <2>1. Resting(t)'
    BY <1>2 DEF ChainInv, OnDisk, Resting, Backed
  <2>2. QED
    BY <1>2, <2>1, OneTask
<1>3. CASE lock[t] # NoProc
  <2>1. \A q \in Procs : lock[t] = q => Backed(t, chain[q])'
    BY <1>1 DEF ChainInv, Held, OnDisk, Builds, Backed
  <2>2. QED
    BY <1>1, <1>3, <2>1, OneTask
<1>4. QED
  BY <1>2, <1>3

\* The steps of a command outside of its transaction.
LEMMA OutsideSteps ==
  ASSUME ChainInv, NEW p \in Procs,
         Begin(p) \/ StartCopy(p) \/ CopyRefused(p) \/ FinishCopy(p) \/ Refused(p) \/ CleanUp(p)
  PROVE  Held' /\ OnDisk'
<1>1. pc[p] \notin Inside /\ pc'[p] \notin Inside
  BY DEF Begin, Load, Digest, StartCopy, CopyRefused, FinishCopy, Refused, CleanUp, Return, Goto,
         Inside, ChainInv, TypeInv, TypeOK
<1>2. UNCHANGED <<events, committed, lock>>
  BY DEF Begin, Load, Digest, StartCopy, CopyRefused, FinishCopy, Refused, CleanUp, tree
<1>3. \A q \in Procs \ {p} : pc'[q] = pc[q] /\ op'[q] = op[q] /\ chain'[q] = chain[q]
  BY DEF Begin, Load, Digest, StartCopy, CopyRefused, FinishCopy, Refused, CleanUp, Return, Goto,
         mine, ChainInv, TypeInv, TypeOK
<1>4. ItsCommand(p)'
  <2>1. CASE Begin(p)
    BY <2>1 DEF Begin, Load, Digest, MayAppend, Goto, ItsCommand, Proposing, ChainInv, TypeInv,
                TypeOK
  <2>2. CASE StartCopy(p) \/ FinishCopy(p)
    BY <2>2 DEF StartCopy, FinishCopy, Goto, mine, ItsCommand, Proposing, ChainInv, Held,
                TypeInv, TypeOK
  <2>3. CASE CopyRefused(p) \/ Refused(p) \/ CleanUp(p)
    BY <2>3 DEF CopyRefused, Refused, CleanUp, Return, ItsCommand, ChainInv, TypeInv, TypeOK
  <2>4. QED
    BY <2>1, <2>2, <2>3
<1>5. \E t \in Tasks : TRUE
  BY DEF Begin, StartCopy, CopyRefused, FinishCopy, Refused, CleanUp, Goto, ChainInv, TypeInv,
         Commands
<1>6. QED
  BY <1>1, <1>2, <1>3, <1>4, <1>5, Outside

\* The steps of a transaction.
LEMMA InsideSteps ==
  ASSUME ChainInv, NEW p \in Procs,
         OpenTransaction(p) \/ CopyEvidence(p) \/ WriteEvent(p) \/ WriteCard(p)
  PROVE  Held' /\ OnDisk'
<1> DEFINE t == TaskOf(p)
<1>1. /\ t \in Tasks /\ pc[p] # "idle" /\ UNCHANGED <<mine, committed>> /\ TaskOf(p)' = t
      /\ \A q \in Procs \ {p} : pc'[q] = pc[q]
      /\ pc'[p] \in Inside
  <2>1. /\ pc[p] # "idle" /\ UNCHANGED <<mine, committed>>
        /\ \E s \in Inside : pc' = [pc EXCEPT ![p] = s]
    BY DEF OpenTransaction, CopyEvidence, WriteEvent, WriteCard, Goto, Inside
  <2>2. t \in Tasks /\ pc \in [Procs -> {pc[q] : q \in Procs}]
    BY <2>1 DEF ChainInv, TypeInv, TypeOK, TaskOf, Commands
  <2>3. QED
    BY <2>1, <2>2 DEF mine, TaskOf
<1>2. /\ lock'[t] = p /\ \A u \in Tasks \ {t} : lock'[u] = lock[u]
      /\ lock[t] \in {p, NoProc}
  BY <1>1 DEF OpenTransaction, CopyEvidence, WriteEvent, WriteCard, Take, Goto, ChainInv,
              TypeInv, TypeOK, Held, Inside
<1>3. \A u \in Tasks \ {t} : events'[u] = events[u]
  BY <1>1 DEF OpenTransaction, CopyEvidence, WriteEvent, WriteCard, tree, ChainInv, TypeInv, TypeOK
<1>4. ItsCommand(p)'
  <2>1. pc[p] \notin Proposing /\ pc'[p] \notin Proposing
    BY <1>1 DEF OpenTransaction, CopyEvidence, WriteEvent, WriteCard, Goto, Inside, Proposing
  <2>2. QED
    BY <1>1, <2>1 DEF mine, ItsCommand, ChainInv, Held
<1>5. Builds(p)'
  <2>1. CASE OpenTransaction(p)
    <3>1. events[t] = chain[p] /\ Resting(t) /\ UNCHANGED events /\ pc'[p] = "open"
      BY <1>1, <2>1
      DEF OpenTransaction, Take, Goto, tree, ChainInv, TypeInv, TypeOK, OnDisk
    <3>2. QED
      BY <1>1, <3>1 DEF Builds, Resting, Backed, mine
  <2>2. CASE CopyEvidence(p)
    <3>1. Builds(p) /\ UNCHANGED events /\ pc[p] = "open" /\ pc'[p] = "copied"
      BY <2>2 DEF CopyEvidence, Goto, Inside, ChainInv, TypeInv, TypeOK, OnDisk
    <3>2. QED
      BY <1>1, <3>1 DEF Builds, Backed, mine
  <2>3. CASE WriteEvent(p)
    <3>1. Builds(p) /\ pc[p] \in {"open", "copied"} /\ pc'[p] = "written"
      BY <2>3 DEF WriteEvent, Goto, Inside, ChainInv, TypeInv, TypeOK, OnDisk
    <3>2. /\ events'[t] = Append(chain[p], NewEvent(p, chain[p], op[p].type, op[p].to))
          /\ <<op[p].type, Status(chain[p]), op[p].to>> \in EventSpecs
      BY <1>1, <2>3, <3>1 DEF WriteEvent, BodyAccepts, Builds, ChainInv, TypeInv, TypeOK
    <3>3. QED
      BY <1>1, <3>1, <3>2 DEF Builds, Backed, Extended, mine
  <2>4. CASE WriteCard(p)
    <3>1. Builds(p) /\ UNCHANGED events /\ pc[p] = "written" /\ pc'[p] = "viewed"
      BY <2>4 DEF WriteCard, Goto, Inside, ChainInv, TypeInv, TypeOK, OnDisk
    <3>2. QED
      BY <1>1, <3>1 DEF Builds, Backed, Extended, mine
  <2>5. QED
    BY <2>1, <2>2, <2>3, <2>4
<1>6. \A q \in Procs \ {p} : pc'[q] = pc[q] /\ op'[q] = op[q] /\ chain'[q] = chain[q]
  BY <1>1 DEF mine
<1>7. \A u \in Tasks \ {t} : committed'[u] = committed[u]
  BY <1>1
<1>8. QED
  BY <1>1, <1>2, <1>3, <1>4, <1>5, <1>6, <1>7, OneTask

\* The chain an ended transaction leaves: the one it has read, or that and
\* its event, which is a legal successor.
LEMMA Outcome ==
  ASSUME ChainInv, NEW p \in Procs, pc[p] \in Inside
  PROVE  /\ TaskOf(p) \in Tasks /\ chain[p] \in Seq(Events) /\ ValidChain(chain[p])
         /\ Backed(TaskOf(p), chain[p]) /\ chain[p] # << >>
         /\ events[TaskOf(p)] \in Seq(Events) /\ ValidChain(events[TaskOf(p)])
         /\ events[TaskOf(p)] # << >> /\ Head(events[TaskOf(p)]) = Head(chain[p])
         /\ IsPrefix(chain[p], events[TaskOf(p)])
         /\ RestoreTask(p) => events' = [events EXCEPT ![TaskOf(p)] = chain[p]]
<1> DEFINE t == TaskOf(p)
           c == chain[p]
           e == NewEvent(p, c, op[p].type, op[p].to)
<1>1. t \in Tasks /\ c \in Seq(Events) /\ events[t] \in Seq(Events) /\ op[p] \in Commands
  BY DEF ChainInv, TypeInv, TypeOK, TaskOf, Commands, Inside
<1>2. e \in Events
  BY <1>1, NewEventType DEF Commands
<1>3. Builds(p) /\ Backed(t, c) /\ ValidChain(c)
  BY <1>1 DEF ChainInv, OnDisk, Builds
<1>4. c # << >>
  BY DEF ChainInv, Held, ItsCommand, Inside, Proposing
<1>5. CASE pc[p] \in {"open", "copied"}
  <2>1. events[t] = c
    BY <1>3, <1>5 DEF Builds
  <2>2. IsPrefix(c, c)
    BY <1>1, <1>2, FrontOfAppend
  <2>3. RestoreTask(p) => events' = [events EXCEPT ![t] = c]
    BY <1>5, <2>1 DEF RestoreTask
  <2>4. QED
    BY <1>1, <1>3, <1>4, <2>1, <2>2, <2>3
<1>6. CASE pc[p] \in {"written", "viewed"}
  <2>1. events[t] = Append(c, e) /\ <<op[p].type, Status(c), op[p].to>> \in EventSpecs
    BY <1>3, <1>6 DEF Builds, Extended
  <2>2. ValidChain(Append(c, e))
    BY <1>1, <1>3, <2>1, AppendedIsValid DEF Commands
  <2>3. events[t] # << >> /\ Front(events[t]) = c /\ IsPrefix(c, events[t])
    BY <1>1, <1>2, <2>1, FrontOfAppend
  <2>4. RestoreTask(p) => events' = [events EXCEPT ![t] = c]
    BY <1>6, <2>3 DEF RestoreTask
  <2>5. Head(events[t]) = Head(c)
    <3> HIDE DEF e
    <3>1. Len(c) \in Nat \ {0} /\ Append(c, e)[1] = c[1]
      BY <1>1, <1>2, <1>4, AppendProperties, EmptySeq, LenProperties
    <3>2. QED
      BY <1>1, <1>4, <2>1, <2>3, <3>1, HeadTailProperties
  <2>6. QED
    BY <1>1, <1>3, <1>4, <2>1, <2>2, <2>3, <2>4, <2>5
<1>7. QED
  BY <1>5, <1>6 DEF Inside

LEMMA EndSteps ==
  ASSUME ChainInv, NEW p \in Procs,
         Commit(p) \/ Abort(p) \/ (Recover(p) /\ op[p].type # "proposal")
  PROVE  Held' /\ OnDisk'
<1>1. pc[p] \in Inside
  BY DEF Commit, Abort, Recover, InTransaction, Inside, Proposing, ItsCommand, ChainInv, TypeInv,
         Held
<1>2. PICK t \in Tasks : t = TaskOf(p)
  BY <1>1, Outcome
<1>3. op[p].type # "proposal" /\ chain[p] # << >>
  BY <1>1 DEF ChainInv, Held, ItsCommand, Inside, Proposing
<1>4. lock' = [lock EXCEPT ![t] = NoProc]
  BY <1>2, <1>3 DEF Commit, Abort, Recover, Release, LockOf
<1>5. \/ Return(p)
      \/ pc' = [pc EXCEPT ![p] = "cleanup"] /\ UNCHANGED mine
  BY DEF Commit, Abort, Recover, Goto
<1>6. /\ \A q \in Procs \ {p} : pc'[q] = pc[q] /\ op'[q] = op[q] /\ chain'[q] = chain[q]
      /\ pc'[p] \notin Inside /\ ItsCommand(p)'
  BY <1>3, <1>5
  DEF Return, mine, ItsCommand, Inside, Proposing, ChainInv, TypeInv, TypeOK
<1>7. /\ \A u \in Tasks \ {t} : /\ events'[u] = events[u] /\ committed'[u] = committed[u]
                                /\ lock'[u] = lock[u]
      /\ lock'[t] = NoProc /\ Resting(t)'
  <2>1. CASE Commit(p)
    <3>1. events' = events /\ committed' = [committed EXCEPT ![t] = events[t]]
      BY <1>2, <2>1 DEF Commit, tree
    <3>2. ValidChain(events[t])
      BY <1>1, <1>2, Outcome
    <3>3. QED
      BY <1>2, <1>4, <3>1, <3>2 DEF Resting, Backed, ChainInv, TypeInv, TypeOK
  <2>2. CASE Abort(p) \/ (Recover(p) /\ op[p].type # "proposal")
    <3>1. RestoreTask(p) /\ committed' = committed
      BY <2>2 DEF Abort, Recover
    <3>2. /\ events' = [events EXCEPT ![t] = chain[p]]
          /\ ValidChain(chain[p]) /\ Backed(t, chain[p])
      BY <1>1, <1>2, <3>1, Outcome
    <3>3. QED
      BY <1>2, <1>4, <3>1, <3>2 DEF Resting, Backed, ChainInv, TypeInv, TypeOK
  <2>3. QED
    BY <2>1, <2>2
<1>8. QED
  <2>1. lock[t] = p
    BY <1>1, <1>2 DEF ChainInv, Held
  <2>2. QED
    BY <1>2, <1>6, <1>7, <2>1, OneTask

-----------------------------------------------------------------------------
(***************************************************************************)
(* The steps of a proposal.                                                *)
(***************************************************************************)
\* Where no event is, none is committed and nobody is writing one.
LEMMA EmptyTask ==
  ASSUME ChainInv, NEW t \in Tasks, events[t] = << >>
  PROVE  lock[t] = NoProc /\ committed[t] = << >>
<1>1. lock[t] = NoProc
  <2>1. SUFFICES ASSUME NEW p \in Procs, lock[t] = p PROVE FALSE
    BY DEF ChainInv, TypeInv, TypeOK
  <2>2. pc[p] \in Inside /\ TaskOf(p) = t
    BY <2>1 DEF ChainInv, Held
  <2>3. QED
    BY <2>2, Outcome
<1>2. QED
  BY <1>1, NoEvents DEF ChainInv, OnDisk, Resting, Backed

\* What every step of a proposal leaves alone.
LEMMA ProposalFrame ==
  ASSUME ChainInv, NEW p \in Procs, pc[p] \in Proposing,
         \/ OpenProposal(p) \/ ProposalRefused(p) \/ EnsureSingleActive(p) \/ CreateTask(p)
         \/ CommitProposal(p) \/ AbortProposal(p) \/ Recover(p)
  PROVE  /\ \A q \in Procs \ {p} : pc'[q] = pc[q] /\ op'[q] = op[q] /\ chain'[q] = chain[q]
         /\ \A u \in Tasks : lock'[u] = lock[u]
         /\ pc[p] \notin Inside /\ pc'[p] \notin Inside /\ ItsCommand(p)'
         /\ TaskOf(p) \in Tasks /\ lock[TaskOf(p)] # p
         /\ op[p].type = "proposal" /\ op[p].to = "AWAITING_OWNER_APPROVAL"
<1>1. /\ op[p].type = "proposal" /\ op[p].to = "AWAITING_OWNER_APPROVAL"
      /\ pc[p] # "idle" /\ pc[p] \notin Inside /\ TaskOf(p) \in Tasks
  BY DEF ChainInv, Held, ItsCommand, Inside, Proposing, TypeInv, TaskOf, Commands
<1>2. \/ Return(p)
      \/ UNCHANGED mine /\ \E s \in Proposing : pc' = [pc EXCEPT ![p] = s]
  BY DEF OpenProposal, ProposalRefused, EnsureSingleActive, CreateTask, CommitProposal,
         AbortProposal, Recover, Goto, Proposing
<1>3. /\ \A q \in Procs \ {p} : pc'[q] = pc[q] /\ op'[q] = op[q] /\ chain'[q] = chain[q]
      /\ pc'[p] \notin Inside
  BY <1>2 DEF Return, mine, Inside, Proposing, ChainInv, TypeInv, TypeOK
<1>4. ItsCommand(p)'
  BY <1>1, <1>2 DEF Return, mine, ItsCommand, Proposing, ChainInv, TypeInv, TypeOK
<1>5. lock' = lock \/ \E q \in Procs \cup {NoProc} : lock' = [lock EXCEPT ![Workspace] = q]
  BY <1>1
  DEF OpenProposal, ProposalRefused, EnsureSingleActive, CreateTask, CommitProposal,
      AbortProposal, Recover, Take, Release, LockOf
<1>6. \A u \in Tasks : lock'[u] = lock[u]
  BY <1>5, TaskAssumption DEF ChainInv, TypeInv, TypeOK
<1>7. lock[TaskOf(p)] # p
  BY <1>1 DEF ChainInv, Held
<1>8. QED
  BY <1>1, <1>3, <1>4, <1>6, <1>7

\* A proposal that withdraws while its task is there finds it as it made it:
\* nobody writes there and nothing is committed.
Undisturbed(p) ==
  pc[p] = "created" => lock[TaskOf(p)] = NoProc /\ committed[TaskOf(p)] = << >>

LEMMA ProposalSteps ==
  ASSUME ChainInv, NEW p \in Procs,
         \/ OpenProposal(p) \/ ProposalRefused(p) \/ EnsureSingleActive(p) \/ CreateTask(p)
         \/ CommitProposal(p)
         \/ (AbortProposal(p) \/ (Recover(p) /\ op[p].type = "proposal")) /\ Undisturbed(p)
  PROVE  Held' /\ OnDisk'
<1>1. pc[p] \in Proposing
  BY DEF OpenProposal, ProposalRefused, EnsureSingleActive, CreateTask, CommitProposal,
         AbortProposal, Recover, Goto, InTransaction, Proposing, ItsCommand, ChainInv, Held,
         TypeInv
<1>2. /\ \A q \in Procs \ {p} : pc'[q] = pc[q] /\ op'[q] = op[q] /\ chain'[q] = chain[q]
      /\ \A u \in Tasks : lock'[u] = lock[u]
      /\ pc[p] \notin Inside /\ pc'[p] \notin Inside /\ ItsCommand(p)'
      /\ TaskOf(p) \in Tasks /\ lock[TaskOf(p)] # p
      /\ op[p].type = "proposal" /\ op[p].to = "AWAITING_OWNER_APPROVAL"
  BY <1>1, ProposalFrame
<1>3. PICK t \in Tasks : t = TaskOf(p)
  BY <1>2
<1>4. CASE UNCHANGED <<events, committed>>
  BY <1>2, <1>3, <1>4, Outside
<1>5. CASE CreateTask(p)
  <2> DEFINE c == <<NewEvent(p, << >>, "proposal", "AWAITING_OWNER_APPROVAL")>>
  <2>1. /\ events[t] = << >> /\ events' = [events EXCEPT ![t] = c] /\ committed' = committed
    BY <1>2, <1>3, <1>5 DEF CreateTask
  <2>2. lock[t] = NoProc /\ committed[t] = << >>
    BY <1>2, <1>3, <2>1, EmptyTask
  <2>3. ValidChain(c) /\ Len(c) = 1
    BY ProposalIsValid
  <2> HIDE DEF c
  <2>4. events'[t] = c /\ \A u \in Tasks \ {t} : events'[u] = events[u]
    BY <1>2, <1>3, <2>1 DEF ChainInv, TypeInv, TypeOK
  <2>5. Resting(t)'
    BY <2>1, <2>2, <2>3, <2>4 DEF Resting, Backed
  <2>6. lock'[t] = NoProc /\ \A u \in Tasks \ {t} : committed'[u] = committed[u]
    BY <1>2, <1>3, <2>1, <2>2
  <2>7. QED
    BY <1>2, <1>3, <2>2, <2>4, <2>5, <2>6, OneTask
<1>6. CASE CommitProposal(p) /\ committed' # committed
  <2>1. /\ events' = events /\ events[t] # << >> /\ committed[t] = << >>
        /\ committed' = [committed EXCEPT ![t] = <<Head(events[t])>>]
    BY <1>2, <1>3, <1>6 DEF CommitProposal, tree, ChainInv, TypeInv, TypeOK
  <2>2. /\ committed'[t] = <<Head(events[t])>>
        /\ \A u \in Tasks \ {t} : committed'[u] = committed[u] /\ events'[u] = events[u]
    BY <1>2, <1>3, <2>1 DEF ChainInv, TypeInv, TypeOK
  <2>3. \A c \in Seq(Events) : Len(c) = 1 => c = <<Head(c)>>
    BY LenProperties
  <2>4. events[t] \in Seq(Events)
    BY <1>2, <1>3 DEF ChainInv, TypeInv, TypeOK
  <2>5. CASE lock[t] = NoProc
    <3>1. Backed(t, events[t]) /\ ValidChain(events[t])
      BY <1>2, <1>3, <2>5 DEF ChainInv, OnDisk, Resting
    <3>2. committed'[t] = events[t]
      BY <2>1, <2>2, <2>3, <2>4, <3>1 DEF Backed
    <3>3. Resting(t)'
      BY <2>1, <3>1, <3>2 DEF Resting, Backed
    <3>4. lock'[t] = NoProc
      BY <1>2, <1>3, <2>5
    <3>5. QED
      BY <1>2, <1>3, <2>2, <2>5, <3>3, <3>4, OneTask
  <2>6. CASE lock[t] # NoProc
    <3>1. ASSUME NEW q \in Procs, lock[t] = q PROVE Backed(t, chain[q])'
      <4>1. pc[q] \in Inside /\ TaskOf(q) = t /\ q # p
        BY <1>2, <1>3, <3>1 DEF ChainInv, Held
      <4>2. /\ Backed(t, chain[q]) /\ chain[q] # << >> /\ chain[q] \in Seq(Events)
            /\ Head(events[t]) = Head(chain[q])
        BY <4>1, Outcome
      <4>3. Len(chain[q]) = 1
        BY <2>1, <4>2 DEF Backed
      <4>4. committed'[t] = chain[q]
        BY <2>2, <2>3, <4>2, <4>3
      <4>5. chain'[q] = chain[q]
        BY <1>2, <1>3, <4>1
      <4>6. QED
        BY <4>4, <4>5 DEF Backed
    <3>2. lock'[t] = lock[t] /\ lock[t] \notin {p, NoProc} /\ events'[t] = events[t]
      BY <1>2, <1>3, <2>1, <2>6
    <3>3. QED
      BY <1>2, <1>3, <2>2, <3>1, <3>2, OneTask
  <2>7. QED
    BY <2>5, <2>6
<1>7. CASE /\ AbortProposal(p) \/ (Recover(p) /\ op[p].type = "proposal")
           /\ Undisturbed(p) /\ pc[p] = "created"
  <2>1. lock[t] = NoProc /\ committed[t] = << >> /\ committed' = committed
    BY <1>3, <1>7 DEF Undisturbed, AbortProposal, Recover
  <2>2. events' = [events EXCEPT ![t] = << >>]
    BY <1>3, <1>7 DEF AbortProposal, Recover, RemoveTask
  <2>3. events'[t] = << >> /\ \A u \in Tasks \ {t} : events'[u] = events[u]
    BY <1>2, <1>3, <2>2 DEF ChainInv, TypeInv, TypeOK
  <2>4. Resting(t)'
    BY <2>1, <2>3 DEF Resting, Backed, ValidChain
  <2>5. lock'[t] = NoProc /\ \A u \in Tasks \ {t} : committed'[u] = committed[u]
    BY <1>2, <1>3, <2>1
  <2>6. QED
    BY <1>2, <1>3, <2>1, <2>3, <2>4, <2>5, OneTask
<1>8. QED
  BY <1>4, <1>5, <1>6, <1>7
  DEF OpenProposal, ProposalRefused, EnsureSingleActive, CommitProposal, AbortProposal, Recover,
      RemoveTask, tree

LEMMA CrashSteps ==
  ASSUME ChainInv, NEW p \in Procs, Crash(p)
  PROVE  Held' /\ OnDisk'
<1>1. CASE InTransaction(p)
  BY <1>1
  DEF Crash, tree, mine, ChainInv, Held, OnDisk, InTransaction, TaskOf, ItsCommand, Builds,
      Resting, Backed, Extended
<1>2. CASE ~InTransaction(p)
  <2>1. /\ UNCHANGED <<events, committed, lock>> /\ pc'[p] = "idle"
        /\ pc[p] \notin Inside /\ TaskOf(p) \in Tasks
    BY <1>2
    DEF Crash, Return, tree, InTransaction, Inside, TaskOf, Commands, ChainInv, TypeInv, TypeOK
  <2>2. \A q \in Procs \ {p} : pc'[q] = pc[q] /\ op'[q] = op[q] /\ chain'[q] = chain[q]
    BY <1>2 DEF Crash, Return, ChainInv, TypeInv, TypeOK
  <2>3. pc'[p] \notin Inside /\ ItsCommand(p)'
    BY <2>1 DEF Inside, ItsCommand
  <2>4. QED
    BY <2>1, <2>2, <2>3, Outside
<1>3. QED
  BY <1>1, <1>2

Standing == \A p \in Procs : ~TakesBack(p)

LEMMA StandingTypes == StandingSpec => []TypeInv
<1>1. StandingSpec => Spec
  <2>1. [Next /\ Standing]_vars => [Next]_vars
    OBVIOUS
  <2>2. QED
    BY <2>1, PTL DEF StandingSpec, Spec, Standing
<1>2. QED
  BY <1>1, TypeInvariant

LEMMA ChainInvariant == StandingSpec => []ChainInv
<1>1. ChainInv /\ TypeInv' /\ [Next /\ Standing]_vars => Held' /\ OnDisk'
  <2> SUFFICES ASSUME ChainInv, TypeInv', [Next /\ Standing]_vars PROVE Held' /\ OnDisk'
    OBVIOUS
  <2>1. CASE UNCHANGED vars
    BY <2>1
    DEF vars, tree, mine, ChainInv, Held, OnDisk, TaskOf, ItsCommand, Builds, Resting, Backed,
        Extended
  <2>2. ASSUME NEW p \in Procs, Begin(p) \/ Step(p) \/ Crash(p) \/ Recover(p), ~TakesBack(p)
        PROVE  Held' /\ OnDisk'
    <3>1. AbortProposal(p) \/ Recover(p) => Undisturbed(p)
      BY <2>2 DEF TakesBack, Undisturbed
    <3>2. CASE Begin(p) \/ Step(p) \/ Crash(p)
      BY <3>1, <3>2, OutsideSteps, InsideSteps, EndSteps, ProposalSteps, CrashSteps DEF Step
    <3>3. CASE Recover(p)
      BY <3>1, <3>3, EndSteps, ProposalSteps
    <3>4. QED
      BY <2>2, <3>2, <3>3
  <2>3. QED
    BY <2>1, <2>2 DEF Next, Standing
<1>2. QED
  BY InitChain, <1>1, TypeInvariant, StandingTypes, PTL DEF StandingSpec, ChainInv, Standing, Spec

\* However commands and proposals interleave, fail, are killed and recovered,
\* the events on disk form a legal chain, every event built on the one before
\* it, as long as no proposal takes back what others have written.
THEOREM Chains == StandingSpec => []ChainsValid
<1>1. ChainInv => ChainsValid
  <2> SUFFICES ASSUME ChainInv, NEW t \in Tasks PROVE ValidChain(events[t])
    BY DEF ChainsValid
  <2>1. CASE lock[t] = NoProc
    BY <2>1 DEF ChainInv, OnDisk, Resting
  <2>2. CASE lock[t] # NoProc
    <3>1. PICK p \in Procs : lock[t] = p
      BY <2>2 DEF ChainInv, TypeInv, TypeOK
    <3>2. TaskOf(p) = t /\ pc[p] \in Inside
      BY <3>1 DEF ChainInv, Held
    <3>3. QED
      BY <3>2, Outcome
  <2>3. QED
    BY <2>1, <2>2
<1>2. QED
  BY <1>1, ChainInvariant, PTL

\* The same of the committed events: they are on disk, at the head of the chain.
LEMMA StandingDurable == StandingSpec => []CommittedStay
<1>1. ChainInv => CommittedStay
  <2> SUFFICES ASSUME ChainInv, NEW t \in Tasks PROVE IsPrefix(committed[t], events[t])
    BY DEF CommittedStay
  <2>1. events[t] \in Seq(Events) /\ IsPrefix(events[t], events[t])
    BY DEF ChainInv, TypeInv, TypeOK, IsPrefix
  <2>2. IsPrefix(<< >>, events[t])
    BY <2>1, SubSeqEmpty, NoEvents, LenProperties DEF IsPrefix
  <2>3. CASE lock[t] = NoProc
    BY <2>1, <2>2, <2>3 DEF ChainInv, OnDisk, Resting, Backed
  <2>4. CASE lock[t] # NoProc
    <3>1. PICK p \in Procs : lock[t] = p
      BY <2>4 DEF ChainInv, TypeInv, TypeOK
    <3>2. TaskOf(p) = t /\ pc[p] \in Inside
      BY <3>1 DEF ChainInv, Held
    <3>3. IsPrefix(chain[p], events[t]) /\ Backed(t, chain[p])
      BY <3>2, Outcome
    <3>4. QED
      BY <2>2, <3>3 DEF Backed
  <2>5. QED
    BY <2>3, <2>4
<1>2. QED
  BY <1>1, ChainInvariant, PTL

-----------------------------------------------------------------------------
(***************************************************************************)
(* Blocked tasks.  A legal chain leaves BLOCKED only by an ending event,   *)
(* and nothing follows an ending event.                                    *)
(***************************************************************************)
\* The event after number i starts where event i led to.
LEMMA NextFrom ==
  ASSUME NEW c \in Seq(Events), ValidChain(c), NEW i \in DOMAIN c, i + 1 \in DOMAIN c
  PROVE  <<c[i + 1].type, c[i].to, c[i + 1].to>> \in EventSpecs
<1>1. /\ Len(c) \in Nat /\ DOMAIN c = 1 .. Len(c) /\ i \in 1 .. Len(c)
      /\ \A j \in 1 .. Len(c) : c[j] \in Events
  BY LenProperties
<1>2. /\ SubSeq(c, 1, i) \in Seq(Events) /\ Len(SubSeq(c, 1, i)) = i
      /\ SubSeq(c, 1, i)[i] = c[i]
  <2>1. 1 \in Int /\ i \in Int /\ \A j \in 1 .. i : c[j] \in Events
    BY <1>1
  <2>2. QED
    BY <1>1, <2>1, SubSeqProperties
<1>3. Status(SubSeq(c, 1, i)) = c[i].to
  BY <1>1, <1>2, EmptySeq DEF Status, Last
<1>4. FollowsOn(c, i + 1) /\ (i + 1) - 1 = i
  BY <1>1 DEF ValidChain
<1>5. QED
  BY <1>3, <1>4 DEF FollowsOn

LEMMA LeavingBlocked ==
  ASSUME NEW type, NEW to, <<type, "BLOCKED", to>> \in EventSpecs
  PROVE  type \in {"cancellation", "superseded"} /\ to \in {"CANCELLED", "SUPERSEDED"}
BY DEF EventSpecs, Ending, Open

LEMMA NothingAfterEnd ==
  ASSUME NEW type, NEW from \in {"CANCELLED", "SUPERSEDED"}, NEW to
  PROVE  <<type, from, to>> \notin EventSpecs
BY DEF EventSpecs, Ending, Open

\* A task blocked by the attempt limits takes no further attempt and no result,
\* whichever commands had read it before it was blocked.
THEOREM Blocked == StandingSpec => []BlockedStays
<1>1. ChainsValid /\ TypeOK => BlockedStays
  <2> SUFFICES ASSUME ChainsValid, TypeOK, NEW t \in Tasks,
                      NEW i \in DOMAIN events[t], NEW j \in DOMAIN events[t],
                      i < j, events[t][i].to = "BLOCKED"
               PROVE  events[t][j].type \in {"cancellation", "superseded"}
    BY DEF BlockedStays
  <2> DEFINE c == events[t]
  <2>1. c \in Seq(Events) /\ ValidChain(c)
    BY DEF TypeOK, ChainsValid
  <2>2. Len(c) \in Nat /\ DOMAIN c = 1 .. Len(c) /\ i \in 1 .. Len(c) /\ j \in 1 .. Len(c)
    BY <2>1, LenProperties
  <2> HIDE DEF c
  <2>3. i + 1 \in DOMAIN c
    BY <2>2
  <2>4. <<c[i + 1].type, "BLOCKED", c[i + 1].to>> \in EventSpecs
    BY <2>1, <2>2, <2>3, NextFrom DEF c
  <2>5. /\ c[i + 1].type \in {"cancellation", "superseded"}
        /\ c[i + 1].to \in {"CANCELLED", "SUPERSEDED"}
    BY <2>4, LeavingBlocked
  <2>6. j = i + 1
    <3>1. SUFFICES ASSUME j # i + 1 PROVE FALSE
      OBVIOUS
    <3>2. (i + 1) + 1 \in DOMAIN c
      BY <2>2, <3>1
    <3>3. <<c[(i + 1) + 1].type, c[i + 1].to, c[(i + 1) + 1].to>> \in EventSpecs
      BY <2>1, <2>3, <3>2, NextFrom
    <3>4. QED
      BY <2>5, <3>3, NothingAfterEnd
  <2>7. QED
    BY <2>5, <2>6 DEF c
<1>2. TypeInv => TypeOK
  BY DEF TypeInv
<1>3. QED
  BY <1>1, <1>2, Chains, StandingTypes, PTL

-----------------------------------------------------------------------------
(***************************************************************************)
(* Card and evidence.  At rest they follow from the event files; inside a  *)
(* transaction they lag behind by what the transaction has not done yet.   *)
(***************************************************************************)
Current(t) == card[t] = Len(events[t]) /\ evidence[t] = Attempts(events[t])

ShownBy(p) ==
  /\ card[TaskOf(p)] = IF pc[p] = "viewed" THEN Len(chain[p]) + 1 ELSE Len(chain[p])
  /\ evidence[TaskOf(p)] = IF op[p].type = "objective-attempt" /\ pc[p] # "open"
                           THEN Attempts(chain[p]) + 1 ELSE Attempts(chain[p])
  /\ pc[p] = "copied" => op[p].type = "objective-attempt"

Shown ==
  /\ \A t \in Tasks : lock[t] = NoProc => Current(t)
  /\ \A p \in Procs : pc[p] \in Inside => ShownBy(p)

CardInv == ChainInv /\ Shown

LEMMA AttemptsAppend ==
  ASSUME NEW c \in Seq(Events), NEW e \in Events
  PROVE  /\ Attempts(c) \in Nat
         /\ Attempts(Append(c, e)) =
              IF e.type = "objective-attempt" THEN Attempts(c) + 1 ELSE Attempts(c)
<1> DEFINE A(s) == { i \in DOMAIN s : s[i].type = "objective-attempt" }
           d == Append(c, e)
<1>1. /\ Len(c) \in Nat /\ DOMAIN c = 1 .. Len(c) /\ DOMAIN d = 1 .. Len(c) + 1
      /\ d[Len(c) + 1] = e /\ \A i \in 1 .. Len(c) : d[i] = c[i]
  BY AppendProperties, LenProperties
<1>2. IsFiniteSet(A(c)) /\ Cardinality(A(c)) \in Nat
  <2>1. IsFiniteSet(1 .. Len(c)) /\ A(c) \in SUBSET (1 .. Len(c))
    BY <1>1, FS_Interval
  <2>2. QED
    BY <2>1, FS_Subset, FS_CardinalityType
<1>3. CASE e.type = "objective-attempt"
  <2>1. A(d) = A(c) \cup {Len(c) + 1} /\ Len(c) + 1 \notin A(c)
    BY <1>1, <1>3
  <2>2. QED
    BY <1>2, <1>3, <2>1, FS_AddElement DEF Attempts
<1>4. CASE e.type # "objective-attempt"
  <2>1. A(d) = A(c)
    BY <1>1, <1>4
  <2>2. QED
    BY <1>2, <1>4, <2>1 DEF Attempts
<1>5. QED
  BY <1>3, <1>4

LEMMA ProposalAttempts ==
  /\ Attempts(<< >>) = 0
  /\ \A p, to : Attempts(<<NewEvent(p, << >>, "proposal", to)>>) = 0
<1>1. Attempts(<< >>) = 0
  BY FS_EmptySet DEF Attempts
<1>2. ASSUME NEW p, NEW to PROVE Attempts(<<NewEvent(p, << >>, "proposal", to)>>) = 0
  <2> DEFINE c == <<NewEvent(p, << >>, "proposal", to)>>
  <2>1. { i \in DOMAIN c : c[i].type = "objective-attempt" } = {}
    BY DEF NewEvent
  <2>2. QED
    BY <2>1, FS_EmptySet DEF Attempts
<1>3. QED
  BY <1>1, <1>2

LEMMA InitShown == Init => Shown
<1> SUFFICES ASSUME Init PROVE Shown
  OBVIOUS
<1>1. Attempts(<< >>) = 0 /\ Attempts(<<FirstProposal>>) = 0
  BY ProposalAttempts DEF FirstProposal
<1>2. QED
  BY <1>1 DEF Init, Shown, Current, Inside

\* The steps outside of a transaction.
LEMMA ShownOutside ==
  ASSUME CardInv, NEW p \in Procs, UNCHANGED <<events, card, evidence>>,
         \A u \in Tasks : lock'[u] = lock[u],
         \A q \in Procs \ {p} : pc'[q] = pc[q] /\ op'[q] = op[q] /\ chain'[q] = chain[q],
         pc'[p] \notin Inside
  PROVE  Shown'
<1>1. \A t \in Tasks : lock'[t] = NoProc => Current(t)'
  BY DEF CardInv, Shown, Current
<1>2. ASSUME NEW q \in Procs, pc'[q] \in Inside PROVE ShownBy(q)'
  <2>1. q # p /\ pc[q] \in Inside /\ pc'[q] = pc[q] /\ op'[q] = op[q] /\ chain'[q] = chain[q]
    BY <1>2
  <2>2. QED
    BY <2>1 DEF CardInv, Shown, ShownBy, TaskOf
<1>3. QED
  BY <1>1, <1>2 DEF Shown

\* The steps that change a task are those of the one process that may.
LEMMA ShownInside ==
  ASSUME CardInv, NEW p \in Procs, pc[p] # "idle",
         \A q \in Procs \ {p} : pc'[q] = pc[q] /\ op'[q] = op[q] /\ chain'[q] = chain[q],
         \A u \in Tasks \ {TaskOf(p)} : /\ events'[u] = events[u] /\ card'[u] = card[u]
                                        /\ evidence'[u] = evidence[u] /\ lock'[u] = lock[u],
         pc[p] \in Inside \/ lock[TaskOf(p)] = NoProc,
         pc'[p] \in Inside => ShownBy(p)',
         lock'[TaskOf(p)] = NoProc =>
           /\ card'[TaskOf(p)] = Len(events'[TaskOf(p)])
           /\ evidence'[TaskOf(p)] = Attempts(events'[TaskOf(p)])
  PROVE  Shown'
<1> DEFINE t == TaskOf(p)
<1>1. t \in Tasks
  BY DEF CardInv, ChainInv, TypeInv, TaskOf, Commands
<1>2. \A u \in Tasks : lock'[u] = NoProc => Current(u)'
  BY <1>1 DEF CardInv, Shown, Current
<1>3. ASSUME NEW q \in Procs, q # p, pc'[q] \in Inside PROVE ShownBy(q)'
  <2>1. pc[q] \in Inside /\ pc'[q] = pc[q] /\ op'[q] = op[q] /\ chain'[q] = chain[q]
    BY <1>3
  <2>2. TaskOf(q) \in Tasks /\ TaskOf(q) # t
    BY <1>1, <1>3, <2>1, TaskAssumption
    DEF CardInv, ChainInv, TypeInv, Held, TaskOf, Inside, Commands
  <2>3. QED
    BY <2>1, <2>2 DEF CardInv, Shown, ShownBy, TaskOf
<1>4. QED
  BY <1>2, <1>3 DEF Shown

LEMMA ShownOutsideSteps ==
  ASSUME CardInv, NEW p \in Procs,
         Begin(p) \/ StartCopy(p) \/ CopyRefused(p) \/ FinishCopy(p) \/ Refused(p) \/ CleanUp(p)
  PROVE  Shown'
<1>1. pc'[p] \notin Inside
  BY DEF Begin, Load, Digest, StartCopy, CopyRefused, FinishCopy, Refused, CleanUp, Return, Goto,
         Inside, CardInv, ChainInv, TypeInv, TypeOK
<1>2. UNCHANGED <<events, card, evidence, lock>>
  BY DEF Begin, Load, Digest, StartCopy, CopyRefused, FinishCopy, Refused, CleanUp, tree
<1>3. \A q \in Procs \ {p} : pc'[q] = pc[q] /\ op'[q] = op[q] /\ chain'[q] = chain[q]
  BY DEF Begin, Load, Digest, StartCopy, CopyRefused, FinishCopy, Refused, CleanUp, Return, Goto,
         mine, CardInv, ChainInv, TypeInv, TypeOK
<1>4. QED
  BY <1>1, <1>2, <1>3, ShownOutside

LEMMA ShownInsideSteps ==
  ASSUME CardInv, ChainInv', NEW p \in Procs,
         OpenTransaction(p) \/ CopyEvidence(p) \/ WriteEvent(p) \/ WriteCard(p)
  PROVE  Shown'
<1> DEFINE t == TaskOf(p)
<1>1. /\ t \in Tasks /\ pc[p] # "idle" /\ TaskOf(p)' = t
      /\ \A q \in Procs : op'[q] = op[q] /\ chain'[q] = chain[q]
      /\ \A q \in Procs \ {p} : pc'[q] = pc[q]
  BY DEF OpenTransaction, CopyEvidence, WriteEvent, WriteCard, Goto, mine, TaskOf, CardInv,
         ChainInv, TypeInv, TypeOK, Commands
<1>2. \A u \in Tasks \ {t} : /\ events'[u] = events[u] /\ card'[u] = card[u]
                             /\ evidence'[u] = evidence[u] /\ lock'[u] = lock[u]
  BY <1>1
  DEF OpenTransaction, CopyEvidence, WriteEvent, WriteCard, Take, tree, CardInv, ChainInv,
      TypeInv, TypeOK
<1>3. pc'[p] \in Inside
  BY DEF OpenTransaction, CopyEvidence, WriteEvent, WriteCard, Goto, Inside, CardInv, ChainInv,
         TypeInv, TypeOK
<1>4. lock'[t] # NoProc
  BY <1>1, <1>3, TaskAssumption DEF ChainInv, Held
<1>5. pc[p] \in Inside \/ lock[t] = NoProc
  BY DEF OpenTransaction, CopyEvidence, WriteEvent, WriteCard, Take, Goto, Inside
<1>6. ShownBy(p)'
  <2>1. CASE OpenTransaction(p)
    <3>1. events[t] = chain[p] /\ lock[t] = NoProc /\ pc'[p] = "open"
          /\ UNCHANGED <<card, evidence>>
      BY <2>1 DEF OpenTransaction, Take, Goto, tree, CardInv, ChainInv, TypeInv, TypeOK
    <3>2. card[t] = Len(chain[p]) /\ evidence[t] = Attempts(chain[p])
      BY <1>1, <3>1 DEF CardInv, Shown, Current
    <3>3. QED
      BY <1>1, <3>1, <3>2 DEF ShownBy
  <2>2. CASE CopyEvidence(p)
    <3>1. /\ ShownBy(p) /\ pc[p] = "open" /\ pc'[p] = "copied"
          /\ op[p].type = "objective-attempt"
          /\ card' = card /\ evidence'[t] = evidence[t] + 1
      BY <1>1, <2>2
      DEF CopyEvidence, Goto, Inside, CardInv, Shown, ChainInv, TypeInv, TypeOK
    <3>2. QED
      BY <1>1, <3>1 DEF ShownBy
  <2>3. CASE WriteEvent(p)
    <3>1. /\ ShownBy(p) /\ pc'[p] = "written" /\ UNCHANGED <<card, evidence>>
          /\ \/ pc[p] = "open" /\ op[p].type # "objective-attempt"
             \/ pc[p] = "copied"
      BY <1>1, <2>3
      DEF WriteEvent, Goto, Inside, CardInv, Shown, ChainInv, TypeInv, TypeOK
    <3>2. QED
      BY <1>1, <3>1 DEF ShownBy
  <2>4. CASE WriteCard(p)
    <3>1. /\ ShownBy(p) /\ pc[p] = "written" /\ pc'[p] = "viewed"
          /\ card'[t] = Len(events[t]) /\ evidence' = evidence
      BY <1>1, <2>4
      DEF WriteCard, Goto, Inside, CardInv, Shown, ChainInv, TypeInv, TypeOK
    <3>2. Extended(p) /\ chain[p] \in Seq(Events) /\ op[p] \in Commands
      BY <1>1, <3>1 DEF CardInv, ChainInv, TypeInv, TypeOK, OnDisk, Builds, Inside
    <3>3. NewEvent(p, chain[p], op[p].type, op[p].to) \in Events
      BY <3>2, NewEventType DEF Commands
    <3>4. Len(events[t]) = Len(chain[p]) + 1
      BY <3>2, <3>3, AppendProperties DEF Extended
    <3>5. QED
      BY <1>1, <3>1, <3>4 DEF ShownBy
  <2>5. QED
    BY <2>1, <2>2, <2>3, <2>4
<1>7. QED
  BY <1>1, <1>2, <1>4, <1>5, <1>6, ShownInside

LEMMA ShownEndSteps ==
  ASSUME CardInv, NEW p \in Procs,
         Commit(p) \/ Abort(p) \/ (Recover(p) /\ op[p].type # "proposal")
  PROVE  Shown'
<1> DEFINE t == TaskOf(p)
           c == chain[p]
           e == NewEvent(p, c, op[p].type, op[p].to)
<1>1. pc[p] \in Inside /\ pc[p] # "idle" /\ op[p].type # "proposal"
  BY DEF Commit, Abort, Recover, InTransaction, Inside, Proposing, ItsCommand, CardInv, ChainInv,
         TypeInv, Held
<1>2. /\ lock' = [lock EXCEPT ![t] = NoProc]
      /\ \A q \in Procs \ {p} : pc'[q] = pc[q] /\ op'[q] = op[q] /\ chain'[q] = chain[q]
      /\ pc'[p] \notin Inside
  BY <1>1
  DEF Commit, Abort, Recover, Return, Goto, Release, LockOf, Inside, mine, CardInv,
      ChainInv, TypeInv, TypeOK
<1>3. /\ t \in Tasks /\ c \in Seq(Events) /\ events[t] \in Seq(Events) /\ e \in Events
      /\ ShownBy(p)
  BY <1>1, NewEventType
  DEF CardInv, Shown, ChainInv, TypeInv, TypeOK, TaskOf, Commands
<1>4. Len(c) \in Nat /\ Attempts(c) \in Nat /\ op[p].type = e.type
  BY <1>3, AttemptsAppend, LenProperties DEF NewEvent
<1>5. CASE Commit(p)
  <2>1. pc[p] = "viewed" /\ UNCHANGED <<events, card, evidence>>
    BY <1>5 DEF Commit, tree
  <2>2. events[t] = Append(c, e)
    BY <2>1 DEF CardInv, ChainInv, OnDisk, Builds, Extended, Inside
  <2> HIDE DEF e
  <2>3. /\ Len(events[t]) = Len(c) + 1
        /\ Attempts(events[t]) =
             IF e.type = "objective-attempt" THEN Attempts(c) + 1 ELSE Attempts(c)
    BY <1>3, <2>2, AppendProperties, AttemptsAppend
  <2>4. Current(t)
    BY <1>3, <1>4, <2>1, <2>3 DEF ShownBy, Current
  <2>5. card'[t] = Len(events'[t]) /\ evidence'[t] = Attempts(events'[t])
    BY <2>1, <2>4 DEF Current
  <2>6. QED
    BY <1>1, <1>2, <1>3, <2>1, <2>5, ShownInside
    DEF CardInv, ChainInv, TypeInv, TypeOK
<1>6. CASE Abort(p) \/ (Recover(p) /\ op[p].type # "proposal")
  <2>1. RestoreTask(p)
    BY <1>6 DEF Abort, Recover
  <2>2. events' = [events EXCEPT ![t] = c]
    BY <1>1, <2>1, Outcome DEF CardInv
  <2>3. card'[t] = Len(c)
    BY <1>3, <1>4, <2>1 DEF RestoreTask, ShownBy, CardInv, ChainInv, TypeInv, TypeOK
  <2>4. evidence'[t] = Attempts(c)
    BY <1>3, <1>4, <2>1 DEF RestoreTask, ShownBy, CardInv, ChainInv, TypeInv, TypeOK
  <2>5. card'[t] = Len(events'[t]) /\ evidence'[t] = Attempts(events'[t])
    <3>1. events'[t] = c
      BY <1>3, <2>2 DEF CardInv, ChainInv, TypeInv, TypeOK
    <3>2. QED
      BY <2>3, <2>4, <3>1
  <2>6. \A u \in Tasks \ {t} : /\ events'[u] = events[u] /\ card'[u] = card[u]
                               /\ evidence'[u] = evidence[u] /\ lock'[u] = lock[u]
    BY <1>2, <1>3, <2>1, <2>2
    DEF RestoreTask, CardInv, ChainInv, TypeInv, TypeOK
  <2>7. QED
    BY <1>1, <1>2, <2>5, <2>6, ShownInside
<1>7. QED
  BY <1>5, <1>6

LEMMA ShownProposalSteps ==
  ASSUME CardInv, NEW p \in Procs,
         \/ OpenProposal(p) \/ ProposalRefused(p) \/ EnsureSingleActive(p) \/ CreateTask(p)
         \/ CommitProposal(p)
         \/ (AbortProposal(p) \/ (Recover(p) /\ op[p].type = "proposal")) /\ Undisturbed(p)
  PROVE  Shown'
<1> DEFINE t == TaskOf(p)
<1>1. pc[p] \in Proposing /\ pc[p] # "idle" /\ ChainInv
  BY DEF OpenProposal, ProposalRefused, EnsureSingleActive, CreateTask, CommitProposal,
         AbortProposal, Recover, Goto, InTransaction, Proposing, ItsCommand, CardInv, ChainInv,
         Held, TypeInv
<1>2. /\ \A q \in Procs \ {p} : pc'[q] = pc[q] /\ op'[q] = op[q] /\ chain'[q] = chain[q]
      /\ \A u \in Tasks : lock'[u] = lock[u]
      /\ pc'[p] \notin Inside /\ t \in Tasks
      /\ op[p].type = "proposal" /\ op[p].to = "AWAITING_OWNER_APPROVAL"
  BY <1>1, ProposalFrame
<1>3. CASE UNCHANGED <<events, card, evidence>>
  BY <1>2, <1>3, ShownOutside
<1>4. CASE CreateTask(p)
  <2> DEFINE d == <<NewEvent(p, << >>, "proposal", "AWAITING_OWNER_APPROVAL")>>
  <2>1. /\ events[t] = << >> /\ events' = [events EXCEPT ![t] = d]
        /\ card' = [card EXCEPT ![t] = 1] /\ evidence' = evidence
    BY <1>2, <1>4 DEF CreateTask
  <2>2. lock[t] = NoProc
    BY <1>1, <1>2, <2>1, EmptyTask
  <2>3. evidence[t] = 0 /\ Attempts(d) = 0 /\ Len(d) = 1
    BY <1>2, <2>1, <2>2, ProposalAttempts DEF CardInv, Shown, Current
  <2> HIDE DEF d
  <2>4. /\ card'[t] = Len(events'[t]) /\ evidence'[t] = Attempts(events'[t])
        /\ \A u \in Tasks \ {t} : /\ events'[u] = events[u] /\ card'[u] = card[u]
                                  /\ evidence'[u] = evidence[u] /\ lock'[u] = lock[u]
    BY <1>2, <2>1, <2>3 DEF CardInv, ChainInv, TypeInv, TypeOK
  <2>5. QED
    BY <1>1, <1>2, <2>2, <2>4, ShownInside
<1>5. CASE /\ AbortProposal(p) \/ (Recover(p) /\ op[p].type = "proposal")
           /\ Undisturbed(p) /\ pc[p] = "created"
  <2>1. /\ events' = [events EXCEPT ![t] = << >>] /\ card' = [card EXCEPT ![t] = 0]
        /\ evidence' = [evidence EXCEPT ![t] = 0]
    BY <1>5 DEF AbortProposal, Recover, RemoveTask
  <2>2. lock[t] = NoProc
    BY <1>5 DEF Undisturbed
  <2>3. /\ card'[t] = Len(events'[t]) /\ evidence'[t] = Attempts(events'[t])
        /\ \A u \in Tasks \ {t} : /\ events'[u] = events[u] /\ card'[u] = card[u]
                                  /\ evidence'[u] = evidence[u] /\ lock'[u] = lock[u]
    BY <1>2, <2>1, ProposalAttempts, NoEvents DEF CardInv, ChainInv, TypeInv, TypeOK
  <2>4. QED
    BY <1>1, <1>2, <2>2, <2>3, ShownInside
<1>6. QED
  BY <1>3, <1>4, <1>5
  DEF OpenProposal, ProposalRefused, EnsureSingleActive, CommitProposal, AbortProposal, Recover,
      RemoveTask, tree

LEMMA ShownCrash ==
  ASSUME CardInv, NEW p \in Procs, Crash(p)
  PROVE  Shown'
<1>1. CASE InTransaction(p)
  BY <1>1 DEF Crash, tree, mine, CardInv, Shown, Current, ShownBy, TaskOf
<1>2. CASE ~InTransaction(p)
  <2>1. UNCHANGED <<events, card, evidence, lock>> /\ pc'[p] \notin Inside
    BY <1>2 DEF Crash, Return, tree, Inside, CardInv, ChainInv, TypeInv, TypeOK
  <2>2. \A q \in Procs \ {p} : pc'[q] = pc[q] /\ op'[q] = op[q] /\ chain'[q] = chain[q]
    BY <1>2 DEF Crash, Return, CardInv, ChainInv, TypeInv, TypeOK
  <2>3. QED
    BY <2>1, <2>2, ShownOutside
<1>3. QED
  BY <1>1, <1>2

LEMMA CardInvariant == StandingSpec => []CardInv
<1>1. CardInv /\ ChainInv' /\ [Next /\ Standing]_vars => Shown'
  <2> SUFFICES ASSUME CardInv, ChainInv', [Next /\ Standing]_vars PROVE Shown'
    OBVIOUS
  <2>1. CASE UNCHANGED vars
    BY <2>1 DEF vars, tree, mine, CardInv, Shown, Current, ShownBy, TaskOf
  <2>2. ASSUME NEW p \in Procs, Begin(p) \/ Step(p) \/ Crash(p) \/ Recover(p), ~TakesBack(p)
        PROVE  Shown'
    <3>1. AbortProposal(p) \/ Recover(p) => Undisturbed(p)
      BY <2>2 DEF TakesBack, Undisturbed
    <3>2. CASE Begin(p) \/ Step(p) \/ Crash(p)
      BY <3>1, <3>2, ShownOutsideSteps, ShownInsideSteps, ShownEndSteps, ShownProposalSteps,
         ShownCrash
      DEF Step
    <3>3. CASE Recover(p)
      BY <3>1, <3>3, ShownEndSteps, ShownProposalSteps
    <3>4. QED
      BY <2>2, <3>2, <3>3
  <2>3. QED
    BY <2>1, <2>2 DEF Next, Standing
<1>2. QED
  BY InitShown, <1>1, ChainInvariant, PTL DEF StandingSpec, Standing, CardInv

\* Between transactions the card of a task shows its latest event and its
\* evidence is that of its attempts, whatever failed, was killed or was rolled
\* back in between.
THEOREM Card == StandingSpec => []CardCurrent
<1>1. CardInv => CardCurrent
  BY DEF CardInv, Shown, Current, CardCurrent, AtRest
<1>2. QED
  BY <1>1, CardInvariant, PTL

-----------------------------------------------------------------------------
(***************************************************************************)
(* The committed chains refine the board of statuses.                      *)
(***************************************************************************)
LEMMA EventsMove ==
  ASSUME NEW type, NEW from, NEW to, <<type, from, to>> \in EventSpecs, type # "proposal"
  PROVE  /\ from \in Open
         /\ \/ to = from
            \/ <<from, to>> \in Ledger!Moves
            \/ to \in {"CANCELLED", "SUPERSEDED"}
<1>1. CASE <<type, from, to>> \in Ending
  BY <1>1 DEF Ending
<1>2. CASE <<type, from, to>> \notin Ending
  BY <1>2 DEF EventSpecs, Open, Ledger!Moves
<1>3. QED
  BY <1>1, <1>2

LEMMA InitIsBoard ==
  ASSUME \A t, u \in Proposed : t = u, Init
  PROVE  Ledger!Init
<1>1. Status(<< >>) = "none" /\ Status(<<FirstProposal>>) = "AWAITING_OWNER_APPROVAL"
  <2>1. FirstProposal.to = "AWAITING_OWNER_APPROVAL"
    BY DEF FirstProposal, NewEvent
  <2>2. <<FirstProposal>> # << >> /\ Last(<<FirstProposal>>) = FirstProposal
    BY DEF Last
  <2>3. QED
    BY <2>1, <2>2 DEF Status
<1>2. \A t \in Tasks : Status(committed[t]) =
        IF t \in Proposed THEN "AWAITING_OWNER_APPROVAL" ELSE "none"
  BY <1>1 DEF Init
<1>3. QED
  BY <1>2 DEF Ledger!Init, Ledger!Finished

(***************************************************************************)
(* Without proposals nothing is taken back, and a task that has events has *)
(* committed ones.                                                         *)
(***************************************************************************)
Begun ==
  /\ \A p \in Procs : pc[p] \notin Proposing
  /\ \A t \in Tasks : committed[t] = << >> => events[t] = << >>

LEMMA BegunStep ==
  ASSUME TypeInv, Begun, "proposal" \notin Kinds, [Next]_vars
  PROVE  Begun'
<1>1. CASE UNCHANGED vars
  BY <1>1 DEF vars, tree, Begun
<1>2. ASSUME NEW p \in Procs, Begin(p) \/ Step(p) \/ Crash(p) \/ Recover(p)
      PROVE  Begun'
  <2> DEFINE t == TaskOf(p)
  <2>1. ~( \/ OpenProposal(p) \/ ProposalRefused(p) \/ EnsureSingleActive(p)
           \/ CreateTask(p) \/ CommitProposal(p) \/ AbortProposal(p) )
    BY DEF OpenProposal, ProposalRefused, EnsureSingleActive, CreateTask, CommitProposal,
           AbortProposal, Goto, Begun, Proposing
  <2>2. CASE Commit(p)
    <3>1. /\ events' = events /\ committed' = [committed EXCEPT ![t] = events[t]] /\ Return(p)
      BY <2>2 DEF Commit, tree
    <3>2. QED
      BY <3>1 DEF Return, Begun, Proposing, TypeInv, TypeOK
  <2>3. CASE WriteEvent(p)
    <3>1. /\ events[t] # << >> /\ committed' = committed /\ t \in Tasks
          /\ \A u \in Tasks \ {t} : events'[u] = events[u]
          /\ pc' = [pc EXCEPT ![p] = "written"]
      BY <2>3
      DEF WriteEvent, BodyAccepts, Goto, TaskOf, Commands, TypeInv, TypeOK
    <3>2. committed[t] # << >>
      BY <3>1 DEF Begun
    <3>3. QED
      BY <3>1, <3>2 DEF Begun, Proposing, TypeInv, TypeOK
  <2>4. CASE Abort(p) \/ Recover(p)
    <3>1. pc[p] # "idle" /\ t \in Tasks
      BY <2>4 DEF Abort, Recover, InTransaction, TaskOf, Commands, TypeInv
    <3>2. RestoreTask(p) \/ events' = events
      BY <2>4 DEF Abort, Recover, RemoveTask, tree, Begun, Proposing
    <3>3. \A u \in Tasks : events[u] = << >> => events'[u] = << >>
      BY <3>1, <3>2 DEF RestoreTask, TypeInv, TypeOK
    <3>4. committed' = committed /\ \A q \in Procs : pc'[q] \notin Proposing
      BY <2>4 DEF Abort, Recover, Return, Goto, Begun, Proposing, TypeInv, TypeOK
    <3>5. QED
      BY <3>3, <3>4 DEF Begun
  <2>5. CASE Begin(p) \/ Crash(p) \/ StartCopy(p) \/ CopyRefused(p) \/ FinishCopy(p)
             \/ OpenTransaction(p) \/ Refused(p) \/ CopyEvidence(p) \/ WriteCard(p) \/ CleanUp(p)
    <3>1. UNCHANGED <<events, committed>>
      BY <2>5 DEF Begin, Load, Digest, Crash, StartCopy, CopyRefused, FinishCopy, OpenTransaction,
                  Refused, CopyEvidence, WriteCard, CleanUp, tree
    <3>2. \A q \in Procs : pc'[q] \notin Proposing
      <4>1. CASE Crash(p)
        BY <4>1 DEF Crash, Return, Begun, Proposing, TypeInv, TypeOK
      <4>2. CASE ~Crash(p)
        BY <2>5, <4>2
        DEF Begin, Load, StartCopy, CopyRefused, FinishCopy, OpenTransaction, Refused,
            CopyEvidence, WriteCard, CleanUp, Goto, Return, Begun, Proposing, TypeInv, TypeOK
      <4>3. QED
        BY <4>1, <4>2
    <3>3. QED
      BY <3>1, <3>2 DEF Begun
  <2>6. QED
    BY <1>2, <2>1, <2>2, <2>3, <2>4, <2>5 DEF Step
<1>3. QED
  BY <1>1, <1>2 DEF Next

LEMMA NothingTakenBack ==
  ASSUME "proposal" \notin Kinds
  PROVE  Spec => StandingSpec /\ []Begun
<1>1. Init => Begun
  BY DEF Init, Begun, Proposing
<1>2. TypeInv /\ Begun /\ [Next]_vars => Begun'
  BY BegunStep
<1>3. Spec => []Begun
  BY <1>1, <1>2, TypeInvariant, PTL DEF Spec
<1>4. Begun /\ [Next]_vars => [Next /\ Standing]_vars
  BY DEF Begun, Proposing, Standing, TakesBack
<1>5. QED
  BY <1>3, <1>4, PTL DEF Spec, StandingSpec, Standing

\* Among commands other than proposals, committed means committed: in every
\* behaviour, however they race, fail half-way, are killed and are rolled back or
\* recovered, no event that was committed is removed or changed.  A proposal whose
\* last step fails does remove such events (AbortProposal).
THEOREM Durable ==
  ASSUME "proposal" \notin Kinds
  PROVE  Spec => []CommittedStay
BY NothingTakenBack, StandingDurable, PTL

\* The other three hold without proposals in every behaviour too.
THEOREM WithoutProposals ==
  ASSUME "proposal" \notin Kinds
  PROVE  Spec => [](ChainsValid /\ CardCurrent /\ BlockedStays)
BY NothingTakenBack, Chains, Card, Blocked, PTL

LEMMA CommitMoves ==
  ASSUME ChainInv, Begun, NEW p \in Procs, Commit(p)
  PROVE  \/ Ledger!Next
         \/ [t \in Tasks |-> Status(committed[t])]' = [t \in Tasks |-> Status(committed[t])]
<1> DEFINE t == TaskOf(p)
           c == chain[p]
           e == NewEvent(p, c, op[p].type, op[p].to)
           board == [u \in Tasks |-> Status(committed[u])]
<1>1. pc[p] = "viewed" /\ pc[p] \in Inside
  BY DEF Commit, Inside
<1>2. /\ t \in Tasks /\ c \in Seq(Events) /\ committed[t] = c
      /\ op[p] \in Commands /\ op[p].type # "proposal"
  <2>1. /\ t \in Tasks /\ c \in Seq(Events) /\ Backed(t, c) /\ events[t] # << >>
    BY <1>1, Outcome
  <2>2. committed[t] = c
    BY <2>1 DEF Backed, Begun
  <2>3. op[p] \in Commands /\ op[p].type # "proposal"
    BY <1>1 DEF ChainInv, TypeInv, Held, ItsCommand, Proposing
  <2>4. QED
    BY <2>1, <2>2, <2>3
<1>3. events[t] = Append(c, e) /\ <<op[p].type, Status(c), op[p].to>> \in EventSpecs
  BY <1>1 DEF ChainInv, OnDisk, Builds, Extended
<1>4. Status(events[t]) = op[p].to
  <2>1. e \in Events /\ e.to = op[p].to
    BY <1>2, NewEventType DEF Commands, NewEvent
  <2>2. Append(c, e) # << >> /\ Last(Append(c, e)) = e
    BY <1>2, <2>1, AppendProperties DEF Last
  <2>3. QED
    BY <1>3, <2>1, <2>2 DEF Status
<1>5. committed' = [committed EXCEPT ![t] = events[t]]
  BY DEF Commit
<1>6. board' = [board EXCEPT ![t] = op[p].to]
  <2>1. \A u \in Tasks : committed'[u] = IF u = t THEN events[t] ELSE committed[u]
    BY <1>2, <1>5 DEF ChainInv, TypeInv, TypeOK
  <2>2. QED
    BY <1>2, <1>4, <2>1
<1>7. board[t] = Status(c)
  BY <1>2
<1>8. /\ Status(c) \in Open
      /\ \/ op[p].to = Status(c) \/ <<Status(c), op[p].to>> \in Ledger!Moves
         \/ op[p].to \in {"CANCELLED", "SUPERSEDED"}
  BY <1>2, <1>3, EventsMove
<1>9. CASE op[p].to = Status(c)
  BY <1>2, <1>6, <1>7, <1>9
<1>10. CASE <<Status(c), op[p].to>> \in Ledger!Moves \/ op[p].to \in {"CANCELLED", "SUPERSEDED"}
  <2>1. ~Ledger!Finished(t)
    BY <1>2, <1>8 DEF Ledger!Finished, Ledger!Terminal, Open
  <2>2. op[p].to \in {m[2] : m \in Ledger!Moves} \cup {"CANCELLED", "SUPERSEDED"}
    BY <1>10
  <2>3. Ledger!Move(t)
    BY <1>2, <1>6, <1>10, <2>1, <2>2 DEF Ledger!Move
  <2>4. QED
    BY <1>2, <2>3 DEF Ledger!Next
<1>11. QED
  BY <1>8, <1>9, <1>10

\* With at most one task proposed, the commands implement the board of legal
\* moves, whatever they interleave with and wherever they fail or are killed.
THEOREM Implements ==
  ASSUME "proposal" \notin Kinds, \A t, u \in Proposed : t = u
  PROVE  Spec => LedgerImplementsBoard
<1>1. ChainInv /\ Begun /\ [Next]_vars =>
        [Ledger!Next]_[t \in Tasks |-> Status(committed[t])]
  <2> SUFFICES ASSUME ChainInv, Begun, [Next]_vars
               PROVE  \/ Ledger!Next
                      \/ [t \in Tasks |-> Status(committed[t])]' =
                           [t \in Tasks |-> Status(committed[t])]
    OBVIOUS
  <2>1. CASE committed' = committed
    BY <2>1
  <2>2. CASE committed' # committed
    <3>1. PICK p \in Procs : Begin(p) \/ Step(p) \/ Crash(p) \/ Recover(p)
      BY <2>2 DEF Next, vars
    <3>2. Commit(p) \/ CommitProposal(p)
      BY <2>2, <3>1
      DEF Begin, Load, Digest, Step, Crash, Recover, StartCopy, CopyRefused, FinishCopy,
          OpenTransaction, Refused, CopyEvidence, WriteEvent, WriteCard, Abort, CleanUp,
          OpenProposal, ProposalRefused, EnsureSingleActive, CreateTask, AbortProposal
    <3>3. ~CommitProposal(p)
      BY DEF CommitProposal, Begun, Proposing
    <3>4. QED
      BY <3>2, <3>3, CommitMoves
  <2>3. QED
    BY <2>1, <2>2
<1>2. QED
  BY InitIsBoard, <1>1, NothingTakenBack, ChainInvariant, PTL
  DEF Spec, LedgerImplementsBoard, Ledger!Spec

-----------------------------------------------------------------------------
(***************************************************************************)
(* One active task.  When no mutation fails, nobody is killed and no       *)
(* command brings artifacts, the chains are legal also while proposals are *)
(* made: what a proposal has seen terminal stays terminal, because nothing *)
(* is rolled back and nothing follows an ending event.                     *)
(***************************************************************************)
Calm ==
  /\ MayFail = FALSE /\ MayCrash = FALSE
  /\ Kinds \cap {"result", "objective-attempt"} = {}
  /\ \A t, u \in Proposed : t = u

Plain == {"ready", "open", "written", "viewed"}

\* Every process is in a command without artifacts, and alive.
Working ==
  /\ dead = {}
  /\ \A p \in Procs :
       /\ pc[p] \in {"idle"} \cup Plain \cup Proposing
       /\ pc[p] \in Plain =>
            op[p].type \notin {"proposal", "result", "objective-attempt"} /\ chain[p] # << >>
       /\ pc[p] \in Proposing =>
            op[p].type = "proposal" /\ op[p].to = "AWAITING_OWNER_APPROVAL"

Bare(t) == result[t] = NoProc /\ partial[t] = {} /\ evidence[t] = 0

NoArtifact(c) == \A i \in DOMAIN c : c[i].type \notin {"result", "objective-attempt"}

\* A transaction holds its lock, and its command has the chain on disk.
Locked ==
  /\ \A p \in Procs : InTransaction(p) => lock[LockOf(p)] = p
  /\ \A l \in Tasks \cup {Workspace}, p \in Procs : lock[l] = p => InTransaction(p) /\ LockOf(p) = l
  /\ \A p \in Procs :
       /\ pc[p] = "open" => events[TaskOf(p)] = chain[p] /\ card[TaskOf(p)] = Len(chain[p])
       /\ pc[p] \in {"written", "viewed", "created"} => events[TaskOf(p)] # << >>
       /\ pc[p] = "viewed" => card[TaskOf(p)] = Len(events[TaskOf(p)])
  /\ \A t \in Tasks : lock[t] = NoProc => card[t] = Len(events[t])

Ended(t) == events[t] = << >> \/ Status(events[t]) \in Terminal

CalmInv ==
  /\ TypeInv /\ Working /\ Locked
  /\ \A t \in Tasks : Bare(t) /\ ValidChain(events[t]) /\ NoArtifact(events[t])
  /\ \A p \in Procs : pc[p] = "checked" => \A t \in Tasks : Ended(t)
  /\ OneActiveTask

LEMMA CalmLoadable ==
  ASSUME CalmInv, NEW t \in Tasks
  PROVE  Loadable(t) <=> events[t] # << >>
<1>1. Bare(t) /\ ValidChain(events[t]) /\ NoArtifact(events[t])
  BY DEF CalmInv
<1>2. /\ ~Has(events[t], "result")
      /\ { i \in DOMAIN events[t] : events[t][i].type = "objective-attempt" } = {}
  BY <1>1 DEF NoArtifact, Has
<1>3. Attempts(events[t]) = 0
  BY <1>2, FS_EmptySet DEF Attempts
<1>4. QED
  BY <1>1, <1>2, <1>3 DEF Loadable, InventoryMatches, Bare

\* What a process may do, in a calm workspace.
Reads(p) ==
  \/ \E t \in Tasks, spec \in EventSpecs :
       /\ spec[1] \notin {"proposal", "result", "objective-attempt"}
       /\ Load(p, t, spec[1], spec[3])
  \/ \E t \in Tasks : Digest(p, t)
  \/ Refused(p) \/ ProposalRefused(p)

Holds(p) == OpenTransaction(p) \/ OpenProposal(p) \/ EnsureSingleActive(p)

Leaves(p) ==
  \/ Commit(p) \/ CommitProposal(p)
  \/ Abort(p) /\ pc[p] = "open"
  \/ AbortProposal(p) /\ pc[p] # "created"

\* Leaving a transaction changes no file.
LEMMA LeavesReturns ==
  ASSUME CalmInv, NEW p \in Procs, Leaves(p)
  PROVE  /\ Return(p) /\ UNCHANGED <<tree, dead>>
         /\ pc[p] # "idle" /\ lock' = [lock EXCEPT ![LockOf(p)] = NoProc]
         /\ \/ pc[p] = "viewed" \/ pc[p] = "open"
            \/ pc[p] = "proposing" \/ pc[p] = "checked" \/ pc[p] = "created"
<1>1. CASE Abort(p) /\ pc[p] = "open"
  <2>1. TaskOf(p) \in Tasks /\ op[p].type \notin {"objective-attempt", "result", "proposal"}
    BY <1>1 DEF CalmInv, Working, Plain, TypeInv, TaskOf, Commands
  <2>2. UNCHANGED tree
    BY <1>1, <2>1 DEF Abort, RestoreTask, tree, CalmInv, TypeInv, TypeOK
  <2>3. QED
    BY <1>1, <2>1, <2>2 DEF Abort, Release, LockOf
<1>2. CASE Commit(p)
  <2>1. op[p].type # "proposal"
    BY <1>2 DEF Commit, CalmInv, Working, Plain
  <2>2. QED
    BY <1>2, <2>1 DEF Commit, Release, LockOf
<1>3. CASE CommitProposal(p) \/ (AbortProposal(p) /\ pc[p] # "created")
  <2>1. op[p].type = "proposal"
    BY <1>3 DEF CommitProposal, AbortProposal, CalmInv, Working, Proposing
  <2>2. QED
    BY <1>3, <2>1 DEF CommitProposal, AbortProposal, RemoveTask, Release, LockOf
<1>4. QED
  BY <1>1, <1>2, <1>3 DEF Leaves

LEMMA CalmSteps ==
  ASSUME Calm, CalmInv, NEW p \in Procs, Begin(p) \/ Step(p) \/ Crash(p) \/ Recover(p)
  PROVE  Reads(p) \/ Holds(p) \/ Leaves(p) \/ WriteEvent(p) \/ WriteCard(p) \/ CreateTask(p)
<1>1. /\ p \notin dead /\ pc[p] \in {"idle"} \cup Plain \cup Proposing
      /\ pc[p] \in Plain => op[p].type # "objective-attempt"
  BY DEF CalmInv, Working
<1>2. MayFail = FALSE /\ MayCrash = FALSE /\ Kinds \cap {"result", "objective-attempt"} = {}
  BY DEF Calm
<1>3. pc[p] \in {"written", "created"} => Loadable(TaskOf(p))
  <2>1. pc[p] # "idle" => TaskOf(p) \in Tasks
    BY DEF CalmInv, TypeInv, TaskOf, Commands
  <2>2. QED
    BY <2>1, CalmLoadable DEF CalmInv, Locked
<1>4. CASE Begin(p)
  BY <1>2, <1>4 DEF Begin, Reads
<1>5. ~Crash(p) /\ ~Recover(p)
  BY <1>1, <1>2 DEF Crash, Recover
<1>6. ~StartCopy(p) /\ ~CopyRefused(p) /\ ~FinishCopy(p) /\ ~CleanUp(p) /\ ~CopyEvidence(p)
  BY <1>1
  DEF StartCopy, CopyRefused, FinishCopy, CleanUp, CopyEvidence, Goto, Plain, Proposing
<1>7. CASE Abort(p)
  BY <1>1, <1>2, <1>3, <1>7 DEF Abort, Leaves, Plain, Proposing
<1>8. CASE AbortProposal(p)
  BY <1>2, <1>3, <1>8 DEF AbortProposal, Leaves
<1>9. QED
  BY <1>4, <1>5, <1>6, <1>7, <1>8 DEF Step, Reads, Holds, Leaves

\* What every one of these steps leaves alone: the other processes, and artifacts.
LEMMA CalmFrame ==
  ASSUME CalmInv, NEW p \in Procs,
         Reads(p) \/ Holds(p) \/ Leaves(p) \/ WriteEvent(p) \/ WriteCard(p) \/ CreateTask(p)
  PROVE  /\ \A q \in Procs \ {p} : pc'[q] = pc[q] /\ op'[q] = op[q] /\ chain'[q] = chain[q]
         /\ dead' = dead /\ \A t \in Tasks : Bare(t)'
<1>1. /\ pc \in [Procs -> {pc[q] : q \in Procs}] /\ op \in [Procs -> {op[q] : q \in Procs}]
      /\ chain \in [Procs -> Seq(Events)]
      /\ events \in [Tasks -> Seq(Events)] /\ card \in [Tasks -> Nat]
      /\ evidence \in [Tasks -> Nat]
  BY DEF CalmInv, TypeInv, TypeOK
<1>2. CASE Reads(p)
  BY <1>1, <1>2 DEF Reads, Load, Digest, Refused, ProposalRefused, Goto, Return, tree, Bare, CalmInv
<1>3. CASE Holds(p)
  BY <1>1, <1>3
  DEF Holds, OpenTransaction, OpenProposal, EnsureSingleActive, Goto, tree, mine, Bare, CalmInv
<1>4. CASE Leaves(p)
  <2>1. Return(p) /\ UNCHANGED <<tree, dead>>
    BY <1>4, LeavesReturns
  <2>2. QED
    BY <1>1, <2>1 DEF Return, tree, Bare, CalmInv
<1>5. CASE WriteEvent(p) \/ WriteCard(p) \/ CreateTask(p)
  <2>1. UNCHANGED <<result, evidence, partial, dead, mine>>
    BY <1>5 DEF WriteEvent, WriteCard, CreateTask
  <2>2. /\ pc[p] # "copied"
        /\ \/ pc' = [pc EXCEPT ![p] = "written"] \/ pc' = [pc EXCEPT ![p] = "viewed"]
           \/ pc' = [pc EXCEPT ![p] = "created"]
    BY <1>5 DEF WriteEvent, WriteCard, CreateTask, Goto, CalmInv, Working, Plain, Proposing
  <2>3. QED
    BY <1>1, <2>1, <2>2 DEF mine, Bare, CalmInv
<1>6. QED
  BY <1>2, <1>3, <1>4, <1>5

LEMMA CalmWorking ==
  ASSUME CalmInv, NEW p \in Procs,
         Reads(p) \/ Holds(p) \/ Leaves(p) \/ WriteEvent(p) \/ WriteCard(p) \/ CreateTask(p)
  PROVE  Working'
<1>1. /\ dead' = dead
      /\ \A q \in Procs \ {p} : pc'[q] = pc[q] /\ op'[q] = op[q] /\ chain'[q] = chain[q]
  BY CalmFrame
<1>2. /\ pc \in [Procs -> {pc[q] : q \in Procs}] /\ op \in [Procs -> {op[q] : q \in Procs}]
      /\ chain \in [Procs -> Seq(Events)]
  BY DEF CalmInv, TypeInv, TypeOK
<1>3. /\ pc'[p] \in {"idle"} \cup Plain \cup Proposing
      /\ pc'[p] \in Plain =>
           op'[p].type \notin {"proposal", "result", "objective-attempt"} /\ chain'[p] # << >>
      /\ pc'[p] \in Proposing =>
           op'[p].type = "proposal" /\ op'[p].to = "AWAITING_OWNER_APPROVAL"
  <2> USE DEF Plain, Proposing
  <2>1. ASSUME NEW t \in Tasks, NEW spec \in EventSpecs, Load(p, t, spec[1], spec[3]),
               spec[1] \notin {"proposal", "result", "objective-attempt"}
        PROVE  /\ pc'[p] = "ready" /\ op'[p].type = spec[1] /\ chain'[p] # << >>
    <3>1. /\ pc' = [pc EXCEPT ![p] = "ready"] /\ chain' = [chain EXCEPT ![p] = events[t]]
          /\ op' = [op EXCEPT ![p] = [type |-> spec[1], task |-> t, to |-> spec[3]]]
          /\ events[t] # << >>
      BY <2>1 DEF Load, Goto, MayAppend
    <3>2. QED
      BY <1>2, <3>1
  <2>2. ASSUME NEW t \in Tasks, Digest(p, t)
        PROVE  /\ pc'[p] = "digested" /\ op'[p].type = "proposal"
               /\ op'[p].to = "AWAITING_OWNER_APPROVAL"
    BY <1>2, <2>2 DEF Digest, Goto
  <2>3. CASE Refused(p) \/ ProposalRefused(p) \/ Leaves(p)
    <3>1. Return(p)
      BY <2>3, LeavesReturns DEF Refused, ProposalRefused
    <3>2. QED
      BY <1>2, <3>1 DEF Return
  <2>4. CASE Holds(p) \/ WriteEvent(p) \/ WriteCard(p) \/ CreateTask(p)
    <3>1. UNCHANGED mine
      BY <2>4 DEF Holds, OpenTransaction, OpenProposal, EnsureSingleActive, WriteEvent, WriteCard,
         CreateTask
    <3>2. \/ pc[p] \in Plain /\ pc' = [pc EXCEPT ![p] = "open"]
          \/ pc[p] \in Plain /\ pc' = [pc EXCEPT ![p] = "written"]
          \/ pc[p] \in Plain /\ pc' = [pc EXCEPT ![p] = "viewed"]
          \/ pc[p] \in Proposing /\ pc' = [pc EXCEPT ![p] = "proposing"]
          \/ pc[p] \in Proposing /\ pc' = [pc EXCEPT ![p] = "checked"]
          \/ pc[p] \in Proposing /\ pc' = [pc EXCEPT ![p] = "created"]
      BY <2>4 DEF Holds, OpenTransaction, OpenProposal, EnsureSingleActive, WriteEvent, WriteCard,
         CreateTask, Goto, CalmInv, Working
    <3>3. QED
      BY <1>2, <3>1, <3>2 DEF mine, CalmInv, Working
  <2>5. QED
    BY <2>1, <2>2, <2>3, <2>4 DEF Reads
<1>4. QED
  BY <1>1, <1>3 DEF CalmInv, Working

\* The tasks of the commands that hold their locks.
LEMMA CalmTasks ==
  ASSUME CalmInv, NEW p \in Procs, pc[p] # "idle"
  PROVE  /\ TaskOf(p) \in Tasks /\ LockOf(p) \in Tasks \cup {Workspace}
         /\ pc[p] \in Plain => LockOf(p) = TaskOf(p)
         /\ pc[p] \in Proposing => LockOf(p) = Workspace
BY DEF CalmInv, Working, TypeInv, TaskOf, LockOf, Commands

\* Steps that change no file.
LEMMA CalmReads ==
  ASSUME CalmInv, TypeInv', Working', NEW p \in Procs, Reads(p)
  PROVE  CalmInv'
<1>1. UNCHANGED <<events, card, result, evidence, partial, lock>>
  BY DEF Reads, Load, Digest, Refused, ProposalRefused, tree
<1>2. /\ \A q \in Procs \ {p} : pc'[q] = pc[q] /\ op'[q] = op[q] /\ chain'[q] = chain[q]
      /\ \A t \in Tasks : Bare(t)'
  BY CalmFrame
<1>3. pc[p] \in {"idle", "ready", "digested"} /\ pc'[p] \in {"idle", "ready", "digested"}
  <2>1. pc \in [Procs -> {pc[q] : q \in Procs}]
    BY DEF CalmInv, TypeInv, TypeOK
  <2>2. QED
    BY <2>1 DEF Reads, Load, Digest, Refused, ProposalRefused, Goto, Return
<1>4. Locked'
  BY <1>1, <1>2, <1>3 DEF CalmInv, Locked, InTransaction, LockOf, TaskOf
<1>5. QED
  BY <1>1, <1>2, <1>3, <1>4 DEF CalmInv, ValidChain, FollowsOn, NoArtifact, Ended, OneActiveTask

LEMMA CalmHolds ==
  ASSUME CalmInv, TypeInv', Working', NEW p \in Procs, Holds(p)
  PROVE  CalmInv'
<1>1. UNCHANGED <<events, card, op, chain>>
  BY DEF Holds, OpenTransaction, OpenProposal, EnsureSingleActive, tree, mine
<1>2. (\A q \in Procs \ {p} : pc'[q] = pc[q]) /\ (\A t \in Tasks : Bare(t)')
  BY CalmFrame
<1>3. /\ pc \in [Procs -> {pc[q] : q \in Procs}]
      /\ lock \in [Tasks \cup {Workspace} -> Procs \cup {NoProc}]
      /\ NoProc \notin Procs
  BY TaskAssumption DEF CalmInv, TypeInv, TypeOK
<1>4. TaskOf(p) \in Tasks /\ LockOf(p) \in Tasks \cup {Workspace}
  <2>1. pc[p] # "idle"
    BY DEF Holds, OpenTransaction, OpenProposal, EnsureSingleActive, Goto
  <2>2. QED
    BY <2>1, CalmTasks
<1>5. Locked'
  <2>1. CASE OpenTransaction(p)
    <3>1. /\ pc[p] = "ready" /\ pc'[p] = "open" /\ events[TaskOf(p)] = chain[p]
          /\ lock[TaskOf(p)] = NoProc /\ lock' = [lock EXCEPT ![TaskOf(p)] = p]
          /\ LockOf(p) = TaskOf(p)
      <4>1. pc[p] = "ready" /\ op[p].type # "proposal"
        BY <2>1 DEF OpenTransaction, Goto, CalmInv, Working, Plain
      <4>2. QED
        BY <1>3, <2>1, <4>1 DEF OpenTransaction, Goto, Take, LockOf
    <3>2. card[TaskOf(p)] = Len(chain[p])
      BY <1>4, <3>1 DEF CalmInv, Locked
    <3>3. QED
      BY <1>1, <1>2, <1>3, <1>4, <3>1, <3>2 DEF CalmInv, Locked, InTransaction, LockOf, TaskOf
  <2>2. CASE OpenProposal(p)
    <3>1. /\ pc[p] = "digested" /\ pc'[p] = "proposing" /\ LockOf(p) = Workspace
          /\ lock[Workspace] = NoProc /\ lock' = [lock EXCEPT ![Workspace] = p]
      <4>1. pc[p] = "digested" /\ op[p].type = "proposal"
        BY <2>2 DEF OpenProposal, Goto, CalmInv, Working, Proposing
      <4>2. QED
        BY <1>3, <2>2, <4>1 DEF OpenProposal, Goto, Take, LockOf
    <3>2. \A t \in Tasks : t # Workspace
      BY TaskAssumption
    <3>3. QED
      BY <1>1, <1>2, <1>3, <3>1, <3>2 DEF CalmInv, Locked, InTransaction, LockOf, TaskOf
  <2>3. CASE EnsureSingleActive(p)
    <3>1. pc[p] = "proposing" /\ pc'[p] = "checked" /\ UNCHANGED lock
      BY <1>3, <2>3 DEF EnsureSingleActive, Goto
    <3>2. QED
      BY <1>1, <1>2, <3>1 DEF CalmInv, Locked, InTransaction, LockOf, TaskOf
  <2>4. QED
    BY <2>1, <2>2, <2>3 DEF Holds
<1>6. \A q \in Procs : pc'[q] = "checked" => \A t \in Tasks : Ended(t)'
  <2>1. pc'[p] = "checked" => SingleActive
    BY <1>3 DEF Holds, OpenTransaction, OpenProposal, EnsureSingleActive, Goto
  <2>2. SingleActive => \A t \in Tasks : Ended(t)
    BY DEF SingleActive, Ended
  <2>3. QED
    BY <1>1, <1>2, <2>1, <2>2 DEF CalmInv, Ended
<1>7. QED
  BY <1>1, <1>2, <1>5, <1>6 DEF CalmInv, ValidChain, FollowsOn, NoArtifact, OneActiveTask

LEMMA CalmLeaves ==
  ASSUME CalmInv, TypeInv', Working', NEW p \in Procs, Leaves(p)
  PROVE  CalmInv'
<1>1. /\ Return(p) /\ UNCHANGED <<events, card>> /\ pc[p] # "idle"
      /\ lock' = [lock EXCEPT ![LockOf(p)] = NoProc]
      /\ InTransaction(p)
  BY LeavesReturns DEF tree, InTransaction
<1>2. /\ \A q \in Procs \ {p} : pc'[q] = pc[q] /\ op'[q] = op[q] /\ chain'[q] = chain[q]
      /\ \A t \in Tasks : Bare(t)'
  BY CalmFrame
<1>3. /\ lock \in [Tasks \cup {Workspace} -> Procs \cup {NoProc}]
      /\ NoProc \notin Procs /\ pc'[p] = "idle" /\ lock[LockOf(p)] = p
  <2>1. pc \in [Procs -> {pc[q] : q \in Procs}]
    BY DEF CalmInv, TypeInv, TypeOK
  <2>2. QED
    BY <1>1, <2>1, TaskAssumption DEF CalmInv, TypeInv, TypeOK, Return, Locked
<1>4. LockOf(p) \in Tasks \cup {Workspace}
  BY <1>1, CalmTasks
<1>5. Locked'
  <2>1. ASSUME NEW t \in Tasks, lock'[t] = NoProc PROVE card[t] = Len(events[t])
    <3>1. CASE lock[t] = NoProc
      BY <3>1 DEF CalmInv, Locked
    <3>2. CASE lock[t] # NoProc
      <4>1. LockOf(p) = t
        BY <1>1, <1>3, <1>4, <2>1, <3>2
      <4>2. LockOf(p) = TaskOf(p) /\ pc[p] \in {"viewed", "open"}
        <5>1. LockOf(p) # Workspace
          BY <4>1, TaskAssumption
        <5>2. pc[p] \in Plain
          BY <1>1, <5>1, CalmTasks DEF CalmInv, Working
        <5>3. QED
          BY <1>1, <5>2, CalmTasks, LeavesReturns DEF Plain
      <4>3. QED
        BY <4>1, <4>2 DEF CalmInv, Locked
    <3>3. QED
      BY <3>1, <3>2
  <2>2. \A q \in Procs : InTransaction(q)' => lock'[LockOf(q)'] = q
    <3>1. SUFFICES ASSUME NEW q \in Procs, q # p, InTransaction(q)
                   PROVE  lock'[LockOf(q)] = q
      BY <1>2, <1>3 DEF InTransaction, LockOf, TaskOf
    <3>2. lock[LockOf(q)] = q /\ LockOf(q) \in Tasks \cup {Workspace}
      BY <3>1, CalmTasks DEF CalmInv, Locked, InTransaction
    <3>3. QED
      BY <1>1, <1>3, <3>1, <3>2
  <2>3. \A l \in Tasks \cup {Workspace}, q \in Procs :
          lock'[l] = q => InTransaction(q)' /\ LockOf(q)' = l
    <3>1. SUFFICES ASSUME NEW l \in Tasks \cup {Workspace}, NEW q \in Procs, lock'[l] = q
                   PROVE  InTransaction(q)' /\ LockOf(q)' = l
      OBVIOUS
    <3>2. l # LockOf(p) /\ lock[l] = q
      BY <1>1, <1>3, <1>4, <3>1
    <3>3. InTransaction(q) /\ LockOf(q) = l /\ q # p
      BY <3>2 DEF CalmInv, Locked
    <3>4. QED
      BY <1>2, <3>3 DEF InTransaction, LockOf, TaskOf
  <2>4. QED
    BY <1>1, <1>2, <1>3, <2>1, <2>2, <2>3 DEF CalmInv, Locked, TaskOf
<1>6. QED
  BY <1>1, <1>2, <1>3, <1>5 DEF CalmInv, ValidChain, FollowsOn, NoArtifact, Ended, OneActiveTask

\* Inside a transaction.
LEMMA CalmWriteCard ==
  ASSUME CalmInv, TypeInv', Working', NEW p \in Procs, WriteCard(p)
  PROVE  CalmInv'
<1> DEFINE t == TaskOf(p)
<1>1. /\ UNCHANGED <<events, lock, op, chain>> /\ pc[p] = "written"
      /\ card' = [card EXCEPT ![t] = Len(events[t])]
  BY DEF WriteCard, Goto, mine
<1>2. /\ \A q \in Procs \ {p} : pc'[q] = pc[q]
      /\ \A u \in Tasks : Bare(u)'
  BY CalmFrame
<1>3. pc'[p] = "viewed" /\ card \in [Tasks -> Nat]
  <2>1. pc \in [Procs -> {pc[q] : q \in Procs}]
    BY DEF CalmInv, TypeInv, TypeOK
  <2>2. QED
    BY <2>1 DEF WriteCard, Goto, CalmInv, TypeInv, TypeOK
<1>4. t \in Tasks /\ LockOf(p) = t /\ lock[t] = p
  BY <1>1, CalmTasks DEF Plain, CalmInv, Locked, InTransaction
<1>5. \A u \in Tasks : card'[u] = IF u = t THEN Len(events[t]) ELSE card[u]
  BY <1>1, <1>3
<1> HIDE DEF t
<1>6. \A q \in Procs \ {p} : pc[q] \in {"open", "viewed"} => TaskOf(q) # t
  <2>1. SUFFICES ASSUME NEW q \in Procs \ {p}, pc[q] \in {"open", "viewed"}, TaskOf(q) = t
                 PROVE  FALSE
    OBVIOUS
  <2>2. LockOf(q) = TaskOf(q) /\ InTransaction(q)
    BY <2>1, CalmTasks DEF Plain, InTransaction
  <2>3. QED
    BY <1>4, <2>1, <2>2 DEF CalmInv, Locked
<1>7. Locked'
  <2>1. NoProc \notin Procs
    BY TaskAssumption
  <2>2. \A q \in Procs : TaskOf(q)' = TaskOf(q) /\ LockOf(q)' = LockOf(q)
    BY <1>1 DEF TaskOf, LockOf
  <2>3. \A q \in Procs : InTransaction(q)' <=> InTransaction(q)
    BY <1>1, <1>2, <1>3 DEF InTransaction
  <2>4. \A q \in Procs : pc[q] \in {"open", "viewed"} => TaskOf(q) \in Tasks
    BY CalmTasks
  <2>5. TaskOf(p) = t /\ events[t] # << >>
    BY <1>1 DEF t, CalmInv, Locked
  <2>6. QED
    BY <1>1, <1>2, <1>3, <1>4, <1>5, <1>6, <2>1, <2>2, <2>3, <2>4, <2>5 DEF CalmInv, Locked
<1>8. QED
  BY <1>1, <1>2, <1>3, <1>7 DEF CalmInv, ValidChain, FollowsOn, NoArtifact, Ended, OneActiveTask

LEMMA AppendStatus ==
  ASSUME NEW c \in Seq(Events), NEW e \in Events
  PROVE  /\ Append(c, e) # << >> /\ Status(Append(c, e)) = e.to
         /\ Len(Append(c, e)) = Len(c) + 1
         /\ NoArtifact(c) /\ e.type \notin {"result", "objective-attempt"}
              => NoArtifact(Append(c, e))
<1>1. /\ Len(c) \in Nat /\ DOMAIN c = 1 .. Len(c) /\ DOMAIN Append(c, e) = 1 .. Len(c) + 1
      /\ Len(Append(c, e)) = Len(c) + 1 /\ Append(c, e)[Len(c) + 1] = e
      /\ \A i \in 1 .. Len(c) : Append(c, e)[i] = c[i]
  BY AppendProperties, LenProperties
<1>2. Append(c, e) # << >> /\ Last(Append(c, e)) = e
  BY <1>1, EmptySeq DEF Last
<1>3. QED
  BY <1>1, <1>2 DEF Status, NoArtifact

\* Appending to an open task: nobody is about to create another one.
LEMMA CalmWriteEvent ==
  ASSUME CalmInv, TypeInv', Working', NEW p \in Procs, WriteEvent(p)
  PROVE  /\ CalmInv'
         /\ Status(events[TaskOf(p)]) \in Open
         /\ <<op[p].type, Status(events[TaskOf(p)]), op[p].to>> \in EventSpecs
         /\ op[p].type # "proposal"
         /\ \A u \in Tasks : Status(events'[u]) = IF u = TaskOf(p) THEN op[p].to
                                                  ELSE Status(events[u])
<1> DEFINE t == TaskOf(p)
           e == NewEvent(p, events[t], op[p].type, op[p].to)
<1>1. /\ pc[p] = "open" /\ UNCHANGED <<card, lock, op, chain>>
      /\ op[p].type \notin {"proposal", "result", "objective-attempt"}
  BY DEF WriteEvent, Goto, mine, CalmInv, Working, Plain, Proposing
<1>2. t \in Tasks /\ LockOf(p) = t /\ lock[t] = p /\ events[t] = chain[p] /\ op[p] \in Commands
  BY <1>1, CalmTasks DEF Plain, CalmInv, Locked, InTransaction, TypeInv
<1>3. events[t] \in Seq(Events) /\ e \in Events /\ ValidChain(events[t]) /\ NoArtifact(events[t])
  <2>1. events[t] \in Seq(Events) /\ ValidChain(events[t]) /\ NoArtifact(events[t])
    BY <1>2 DEF CalmInv, TypeInv, TypeOK
  <2>2. QED
    BY <1>2, <2>1, NewEventType DEF Commands
<1>4. e.type = op[p].type /\ e.to = op[p].to
  BY DEF NewEvent
<1>5. <<op[p].type, Status(events[t]), op[p].to>> \in EventSpecs
  BY <1>2 DEF WriteEvent, BodyAccepts
<1>6. Status(events[t]) \in Open
  BY <1>1, <1>5, EventsMove
<1>7. events' = [events EXCEPT ![t] = Append(@, e)]
  BY <1>2 DEF WriteEvent
<1>8. ValidChain(Append(events[t], e))
  BY <1>2, <1>3, <1>5, AppendedIsValid DEF Commands
<1> HIDE DEF t, e
<1>9. \A u \in Tasks : events'[u] = IF u = t THEN Append(events[t], e) ELSE events[u]
  BY <1>7 DEF CalmInv, TypeInv, TypeOK
<1>10. /\ Append(events[t], e) # << >> /\ Status(Append(events[t], e)) = op[p].to
       /\ NoArtifact(Append(events[t], e))
  BY <1>1, <1>3, <1>4, AppendStatus
<1>11. \A q \in Procs : pc[q] # "checked"
  <2>1. ~Ended(t)
    BY <1>6 DEF Ended, Status, Open, Terminal
  <2>2. QED
    BY <1>2, <2>1 DEF CalmInv
<1>12. /\ \A q \in Procs \ {p} : pc'[q] = pc[q]
       /\ \A u \in Tasks : Bare(u)'
  BY CalmFrame
<1>13. pc'[p] = "written"
  <2>1. pc \in [Procs -> {pc[q] : q \in Procs}]
    BY DEF CalmInv, TypeInv, TypeOK
  <2>2. QED
    BY <2>1 DEF WriteEvent, Goto
<1>14. \A q \in Procs \ {p} : pc[q] \in {"open", "viewed"} => TaskOf(q) # t
  <2>1. SUFFICES ASSUME NEW q \in Procs \ {p}, pc[q] \in {"open", "viewed"}, TaskOf(q) = t
                 PROVE  FALSE
    OBVIOUS
  <2>2. LockOf(q) = TaskOf(q) /\ InTransaction(q)
    BY <2>1, CalmTasks DEF Plain, InTransaction
  <2>3. QED
    BY <1>2, <2>1, <2>2 DEF CalmInv, Locked
<1>15. Locked'
  <2>1. NoProc \notin Procs /\ TaskOf(p) = t
    BY TaskAssumption DEF t
  <2>2. \A q \in Procs : TaskOf(q)' = TaskOf(q) /\ LockOf(q)' = LockOf(q)
    BY <1>1 DEF TaskOf, LockOf
  <2>3. \A q \in Procs : InTransaction(q)' <=> InTransaction(q)
    BY <1>1, <1>12, <1>13 DEF InTransaction
  <2>4. \A q \in Procs : pc[q] # "idle" => TaskOf(q) \in Tasks
    BY CalmTasks
  <2>5. /\ \A q \in Procs : InTransaction(q)' => lock'[LockOf(q)'] = q
        /\ \A l \in Tasks \cup {Workspace}, q \in Procs :
             lock'[l] = q => InTransaction(q)' /\ LockOf(q)' = l
    BY <1>1, <2>2, <2>3 DEF CalmInv, Locked
  <2>6. ASSUME NEW q \in Procs
        PROVE  /\ pc'[q] = "open" =>
                    events'[TaskOf(q)] = chain[q] /\ card[TaskOf(q)] = Len(chain[q])
               /\ pc'[q] \in {"written", "viewed", "created"} => events'[TaskOf(q)] # << >>
               /\ pc'[q] = "viewed" => card[TaskOf(q)] = Len(events'[TaskOf(q)])
    <3>1. CASE q = p
      BY <1>2, <1>9, <1>10, <1>13, <2>1, <3>1
    <3>2. CASE q # p /\ pc[q] # "idle"
      <4>1. pc'[q] = pc[q] /\ TaskOf(q) \in Tasks
        BY <1>12, <2>4, <3>2
      <4>2. /\ pc[q] = "open" => events[TaskOf(q)] = chain[q] /\ card[TaskOf(q)] = Len(chain[q])
            /\ pc[q] \in {"written", "viewed", "created"} => events[TaskOf(q)] # << >>
            /\ pc[q] = "viewed" => card[TaskOf(q)] = Len(events[TaskOf(q)])
        BY DEF CalmInv, Locked
      <4>3. /\ TaskOf(q) # t => events'[TaskOf(q)] = events[TaskOf(q)]
            /\ TaskOf(q) = t => events'[TaskOf(q)] # << >>
        BY <1>9, <1>10, <4>1
      <4>4. QED
        BY <1>14, <3>2, <4>1, <4>2, <4>3
    <3>3. CASE q # p /\ pc[q] = "idle"
      BY <1>12, <3>3
    <3>4. QED
      BY <3>1, <3>2, <3>3
  <2>7. \A u \in Tasks : lock[u] = NoProc => card[u] = Len(events'[u])
    BY <1>2, <1>9, <2>1 DEF CalmInv, Locked
  <2>8. \A q \in Procs : TaskOf(q)' = TaskOf(q) /\ card' = card /\ chain' = chain /\ lock' = lock
    BY <1>1, <2>2
  <2>9. QED
    BY <2>5, <2>6, <2>7, <2>8, <1>1 DEF Locked
<1>16. OneActiveTask'
  <2>1. events[t] # << >> /\ Status(events[t]) \notin Terminal
    BY <1>6 DEF Status, Open, Terminal
  <2>2. QED
    BY <1>2, <1>9, <2>1 DEF CalmInv, OneActiveTask
<1>17. \A u \in Tasks : ValidChain(events'[u]) /\ NoArtifact(events'[u])
  BY <1>8, <1>9, <1>10 DEF CalmInv
<1>18. \A q \in Procs : pc'[q] # "checked"
  BY <1>11, <1>12, <1>13
<1>19. CalmInv'
  BY <1>12, <1>15, <1>16, <1>17, <1>18 DEF CalmInv, ValidChain, FollowsOn, NoArtifact
<1>20. QED
  BY <1>1, <1>5, <1>6, <1>9, <1>10, <1>19 DEF t

LEMMA CalmCreateTask ==
  ASSUME CalmInv, TypeInv', Working', NEW p \in Procs, CreateTask(p)
  PROVE  /\ CalmInv'
         /\ TaskOf(p) \in Tasks /\ events[TaskOf(p)] = << >>
         /\ \A u \in Tasks : Ended(u)
         /\ \A u \in Tasks : Status(events'[u]) = IF u = TaskOf(p) THEN "AWAITING_OWNER_APPROVAL"
                                                  ELSE Status(events[u])
<1> DEFINE t == TaskOf(p)
           e == NewEvent(p, << >>, "proposal", "AWAITING_OWNER_APPROVAL")
<1>1. /\ pc[p] = "checked" /\ UNCHANGED <<lock, op, chain>> /\ op[p] \in Commands
      /\ op[p].to = "AWAITING_OWNER_APPROVAL" /\ events[t] = << >>
  BY DEF CreateTask, Goto, mine, CalmInv, Working, Proposing, TypeInv
<1>2. t \in Tasks /\ LockOf(p) = Workspace /\ lock[Workspace] = p
  BY <1>1, CalmTasks DEF Proposing, CalmInv, Locked, InTransaction
<1>3. \A u \in Tasks : Ended(u)
  BY <1>1 DEF CalmInv
<1>4. e \in Events /\ e.type = "proposal" /\ e.to = "AWAITING_OWNER_APPROVAL"
  BY NewEventType, NoEvents, ProposalTypes DEF NewEvent
<1>5. Append(<< >>, e) = <<e>> /\ NoArtifact(<< >>) /\ ValidChain(<< >>) /\ << >> \in Seq(Events)
  BY NoEvents DEF NoArtifact, ValidChain
<1>6. ValidChain(<<e>>)
  <2>1. <<"proposal", Status(<< >>), "AWAITING_OWNER_APPROVAL">> \in EventSpecs
    BY DEF Status, EventSpecs
  <2>2. QED
    BY <1>5, <2>1, AppendedIsValid, ProposalTypes
<1>7. events' = [events EXCEPT ![t] = <<e>>] /\ card' = [card EXCEPT ![t] = 1]
  BY <1>1 DEF CreateTask
<1> HIDE DEF t, e
<1>8. \A u \in Tasks : /\ events'[u] = IF u = t THEN <<e>> ELSE events[u]
                       /\ card'[u] = IF u = t THEN 1 ELSE card[u]
  BY <1>7 DEF CalmInv, TypeInv, TypeOK
<1>9. /\ <<e>> # << >> /\ Status(<<e>>) = "AWAITING_OWNER_APPROVAL" /\ Len(<<e>>) = 1
      /\ NoArtifact(<<e>>)
  BY <1>4, <1>5, AppendStatus
<1>10. /\ \A q \in Procs \ {p} : pc'[q] = pc[q]
       /\ \A u \in Tasks : Bare(u)'
  BY CalmFrame
<1>11. pc'[p] = "created"
  <2>1. pc \in [Procs -> {pc[q] : q \in Procs}]
    BY DEF CalmInv, TypeInv, TypeOK
  <2>2. QED
    BY <2>1 DEF CreateTask, Goto
<1>12. \A q \in Procs \ {p} :
         pc[q] \in {"open", "written", "viewed", "created"} => TaskOf(q) \in Tasks \ {t}
  <2>1. SUFFICES ASSUME NEW q \in Procs \ {p}, pc[q] \in {"open", "written", "viewed", "created"},
                        TaskOf(q) = t
                 PROVE  FALSE
    BY CalmTasks
  <2>2. CASE pc[q] = "open"
    BY <1>1, <2>1, <2>2 DEF t, CalmInv, Locked, Working, Plain
  <2>3. CASE pc[q] # "open"
    BY <1>1, <2>1, <2>3 DEF t, CalmInv, Locked
  <2>4. QED
    BY <2>2, <2>3
<1>13. Locked'
  <2>1. TaskOf(p) = t
    BY DEF t
  <2>2. \A q \in Procs : TaskOf(q)' = TaskOf(q) /\ LockOf(q)' = LockOf(q)
    BY <1>1 DEF TaskOf, LockOf
  <2>3. \A q \in Procs : InTransaction(q)' <=> InTransaction(q)
    BY <1>1, <1>10, <1>11 DEF InTransaction
  <2>4. /\ \A q \in Procs : InTransaction(q)' => lock'[LockOf(q)'] = q
        /\ \A l \in Tasks \cup {Workspace}, q \in Procs :
             lock'[l] = q => InTransaction(q)' /\ LockOf(q)' = l
    BY <1>1, <2>2, <2>3 DEF CalmInv, Locked
  <2>5. ASSUME NEW q \in Procs
        PROVE  /\ pc'[q] = "open" =>
                    events'[TaskOf(q)] = chain[q] /\ card'[TaskOf(q)] = Len(chain[q])
               /\ pc'[q] \in {"written", "viewed", "created"} => events'[TaskOf(q)] # << >>
               /\ pc'[q] = "viewed" => card'[TaskOf(q)] = Len(events'[TaskOf(q)])
    <3>1. CASE q = p
      BY <1>2, <1>8, <1>9, <1>11, <2>1, <3>1
    <3>2. CASE q # p /\ pc[q] \in {"open", "written", "viewed", "created"}
      <4>1. pc'[q] = pc[q] /\ TaskOf(q) \in Tasks \ {t}
        BY <1>10, <1>12, <3>2
      <4>2. events'[TaskOf(q)] = events[TaskOf(q)] /\ card'[TaskOf(q)] = card[TaskOf(q)]
        BY <1>8, <4>1
      <4>3. QED
        BY <4>1, <4>2 DEF CalmInv, Locked
    <3>3. CASE q # p /\ pc[q] \notin {"open", "written", "viewed", "created"}
      BY <1>10, <3>3
    <3>4. QED
      BY <3>1, <3>2, <3>3
  <2>6. \A u \in Tasks : lock[u] = NoProc => card'[u] = Len(events'[u])
    BY <1>8, <1>9 DEF CalmInv, Locked
  <2>7. QED
    BY <2>2, <2>4, <2>5, <2>6, <1>1 DEF Locked
<1>14. \A u, v \in Tasks :
         /\ events'[u] # << >> /\ Status(events'[u]) \notin Terminal
         /\ events'[v] # << >> /\ Status(events'[v]) \notin Terminal
         => u = v
  BY <1>3, <1>8 DEF Ended
<1>15. \A u \in Tasks : ValidChain(events'[u]) /\ NoArtifact(events'[u])
  BY <1>6, <1>8, <1>9 DEF CalmInv
<1>16. \A q \in Procs : pc'[q] # "checked"
  <2>1. SUFFICES ASSUME NEW q \in Procs \ {p}, pc[q] = "checked" PROVE FALSE
    BY <1>10, <1>11
  <2>2. LockOf(q) = Workspace /\ InTransaction(q)
    BY <2>1, CalmTasks DEF Proposing, InTransaction
  <2>3. QED
    BY <1>2, <2>1, <2>2 DEF CalmInv, Locked
<1>17. OneActiveTask'
  BY <1>14 DEF OneActiveTask
<1>18. CalmInv'
  <2>1. \A u \in Tasks : (Bare(u) /\ ValidChain(events[u]) /\ NoArtifact(events[u]))'
    BY <1>10, <1>15 DEF ValidChain, FollowsOn, NoArtifact
  <2>2. QED
    BY <1>13, <1>16, <1>17, <2>1 DEF CalmInv
<1>19. QED
  BY <1>1, <1>2, <1>3, <1>8, <1>9, <1>18 DEF t

LEMMA CalmInit == ASSUME Calm, Init PROVE CalmInv
<1>1. FirstProposal \in Events /\ FirstProposal.type = "proposal"
  BY NewEventType, NoEvents, ProposalTypes DEF FirstProposal, NewEvent
<1>2. ValidChain(<< >>) /\ NoArtifact(<< >>) /\ << >> \in Seq(Events)
  BY NoEvents DEF NoArtifact, ValidChain
<1>3. ValidChain(<<FirstProposal>>) /\ NoArtifact(<<FirstProposal>>)
  <2>1. Append(<< >>, FirstProposal) = <<FirstProposal>>
    OBVIOUS
  <2>2. NoArtifact(Append(<< >>, FirstProposal))
    BY <1>1, <1>2, AppendStatus
  <2>3. <<"proposal", Status(<< >>), "AWAITING_OWNER_APPROVAL">> \in EventSpecs
    BY DEF Status, EventSpecs
  <2>4. ValidChain(Append(<< >>, FirstProposal))
    BY <1>2, <2>3, AppendedIsValid, ProposalTypes DEF FirstProposal
  <2>5. QED
    BY <2>1, <2>2, <2>4
<1>4. TypeInv
  BY TypeInit
<1>5. Working /\ \A p \in Procs : pc[p] = "idle"
  BY DEF Init, Working, Plain, Proposing
<1>6. Locked
  <2>1. \A p \in Procs : ~InTransaction(p) /\ pc[p] = "idle"
    BY <1>5 DEF InTransaction
  <2>2. \A l \in Tasks \cup {Workspace}, p \in Procs : lock[l] # p
    BY TaskAssumption DEF Init
  <2>3. QED
    BY <2>1, <2>2 DEF Init, Locked
<1>7. \A t \in Tasks : Bare(t) /\ ValidChain(events[t]) /\ NoArtifact(events[t])
  BY <1>2, <1>3 DEF Init, Bare
<1>8. OneActiveTask
  BY DEF Calm, Init, OneActiveTask
<1>9. QED
  BY <1>4, <1>5, <1>6, <1>7, <1>8 DEF CalmInv

LEMMA CalmStep ==
  ASSUME Calm, CalmInv, TypeInv', NEW p \in Procs, Begin(p) \/ Step(p) \/ Crash(p) \/ Recover(p)
  PROVE  CalmInv'
<1>1. Reads(p) \/ Holds(p) \/ Leaves(p) \/ WriteEvent(p) \/ WriteCard(p) \/ CreateTask(p)
  BY CalmSteps
<1>2. Working'
  BY <1>1, CalmWorking
<1>3. QED
  BY <1>1, <1>2, CalmReads, CalmHolds, CalmLeaves, CalmWriteEvent, CalmWriteCard, CalmCreateTask

LEMMA CalmStutter == ASSUME CalmInv, TypeInv', UNCHANGED vars PROVE CalmInv'
BY DEF vars, tree, mine, CalmInv, Working, Locked, InTransaction, LockOf, TaskOf, Bare, ValidChain,
   FollowsOn, NoArtifact, Ended, OneActiveTask

LEMMA CalmInvariant == ASSUME Calm PROVE Spec => []CalmInv
<1>1. CalmInv /\ TypeInv' /\ [Next]_vars => CalmInv'
  BY CalmStep, CalmStutter DEF Next
<1>2. Init => CalmInv
  BY CalmInit
<1>3. QED
  BY <1>1, <1>2, TypeInvariant, PTL DEF Spec

\* At most one task is not closed, cancelled or superseded, although a proposal
\* reads the other tasks without their locks, and other commands, which hold
\* other locks, append to them while it is being made.
THEOREM OneActive == ASSUME Calm PROVE Spec => []OneActiveTask
BY CalmInvariant, PTL DEF CalmInv

LEMMA CalmBoardInit == ASSUME Calm, Init PROVE Disk!Init
<1>1. Status(<< >>) = "none" /\ Status(<<FirstProposal>>) = "AWAITING_OWNER_APPROVAL"
  <2>1. FirstProposal \in Events /\ FirstProposal.to = "AWAITING_OWNER_APPROVAL"
    BY NewEventType, NoEvents, ProposalTypes DEF FirstProposal, NewEvent
  <2>2. Append(<< >>, FirstProposal) = <<FirstProposal>>
    OBVIOUS
  <2>3. QED
    BY <2>1, <2>2, AppendStatus, NoEvents DEF Status
<1>2. \A t \in Tasks : Status(events[t]) =
        IF t \in Proposed THEN "AWAITING_OWNER_APPROVAL" ELSE "none"
  BY <1>1 DEF Init
<1>3. QED
  BY <1>2 DEF Disk!Init, Disk!Finished, Calm

\* Every step of a calm workspace is a move on the board, or shows nothing.
LEMMA CalmMoves ==
  ASSUME Calm, CalmInv, TypeInv', NEW p \in Procs, Begin(p) \/ Step(p) \/ Crash(p) \/ Recover(p)
  PROVE  \/ Disk!Next
         \/ [t \in Tasks |-> Status(events[t])]' = [t \in Tasks |-> Status(events[t])]
<1> DEFINE board == [t \in Tasks |-> Status(events[t])]
<1>1. Reads(p) \/ Holds(p) \/ Leaves(p) \/ WriteEvent(p) \/ WriteCard(p) \/ CreateTask(p)
  BY CalmSteps
<1>2. Working'
  BY <1>1, CalmWorking
<1>3. CASE Reads(p) \/ Holds(p) \/ Leaves(p) \/ WriteCard(p)
  <2>1. UNCHANGED events
    BY <1>3, LeavesReturns
    DEF Reads, Load, Digest, Refused, ProposalRefused, Holds, OpenTransaction, OpenProposal,
        EnsureSingleActive, WriteCard, tree
  <2>2. QED
    BY <2>1
<1>4. CASE WriteEvent(p)
  <2> DEFINE t == TaskOf(p)
             from == Status(events[t])
             to == op[p].to
  <2>1. /\ from \in Open /\ <<op[p].type, from, to>> \in EventSpecs /\ op[p].type # "proposal"
        /\ \A u \in Tasks : Status(events'[u]) = IF u = t THEN to ELSE Status(events[u])
    BY <1>2, <1>4, CalmWriteEvent
  <2>2. t \in Tasks
    BY <1>4, CalmTasks DEF WriteEvent, Goto
  <2> HIDE DEF t, to
  <2>3. board' = [board EXCEPT ![t] = to] /\ board[t] = from
    BY <2>1, <2>2
  <2>4. to = from \/ <<from, to>> \in Disk!Moves \/ to \in {"CANCELLED", "SUPERSEDED"}
    <3>1. to = from \/ <<from, to>> \in Ledger!Moves \/ to \in {"CANCELLED", "SUPERSEDED"}
      BY <2>1, EventsMove
    <3>2. QED
      BY <3>1 DEF Ledger!Moves, Disk!Moves
  <2>5. CASE to = from
    BY <2>2, <2>3, <2>5
  <2>6. CASE <<from, to>> \in Disk!Moves \/ to \in {"CANCELLED", "SUPERSEDED"}
    <3>1. ~Disk!Finished(t)
      BY <2>1, <2>2, <2>3 DEF Disk!Finished, Disk!Terminal, Open
    <3>2. to \in {m[2] : m \in Disk!Moves} \cup {"CANCELLED", "SUPERSEDED"}
      BY <2>6
    <3>3. Disk!Move(t)
      BY <2>2, <2>3, <2>6, <3>1, <3>2 DEF Disk!Move
    <3>4. QED
      BY <2>2, <3>3 DEF Disk!Next
  <2>7. QED
    BY <2>4, <2>5, <2>6
<1>5. CASE CreateTask(p)
  <2>1. /\ TaskOf(p) \in Tasks /\ events[TaskOf(p)] = << >> /\ \A u \in Tasks : Ended(u)
        /\ \A u \in Tasks : Status(events'[u]) =
             IF u = TaskOf(p) THEN "AWAITING_OWNER_APPROVAL" ELSE Status(events[u])
    BY <1>2, <1>5, CalmCreateTask
  <2>2. board' = [board EXCEPT ![TaskOf(p)] = "AWAITING_OWNER_APPROVAL"]
    BY <2>1
  <2>3. board[TaskOf(p)] = "none" /\ \A u \in Tasks : Disk!Finished(u)
    BY <2>1 DEF Status, Ended, Terminal, Disk!Finished, Disk!Terminal
  <2>4. QED
    BY <2>1, <2>2, <2>3 DEF Disk!Next, Disk!Propose
<1>6. QED
  BY <1>1, <1>3, <1>4, <1>5

\* Already the event files implement the board of legal moves, proposals
\* included: a task is proposed only when all the others are finally closed.
THEOREM DiskImplements == ASSUME Calm PROVE Spec => DiskImplementsBoard
<1>1. CalmInv /\ TypeInv' /\ [Next]_vars => [Disk!Next]_[t \in Tasks |-> Status(events[t])]
  <2> SUFFICES ASSUME CalmInv, TypeInv', [Next]_vars
               PROVE  \/ Disk!Next
                      \/ [t \in Tasks |-> Status(events[t])]' = [t \in Tasks |-> Status(events[t])]
    OBVIOUS
  <2>1. CASE UNCHANGED vars
    BY <2>1 DEF vars, tree
  <2>2. ASSUME NEW p \in Procs, Begin(p) \/ Step(p) \/ Crash(p) \/ Recover(p)
        PROVE  \/ Disk!Next
               \/ [t \in Tasks |-> Status(events[t])]' = [t \in Tasks |-> Status(events[t])]
    BY <2>2, CalmMoves
  <2>3. QED
    BY <2>1, <2>2 DEF Next
<1>2. Init => Disk!Init
  BY CalmBoardInit
<1>3. QED
  BY <1>1, <1>2, CalmInvariant, TypeInvariant, PTL DEF Spec, DiskImplementsBoard, Disk!Spec
=============================================================================
