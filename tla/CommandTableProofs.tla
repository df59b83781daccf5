------------------------- MODULE CommandTableProofs -------------------------
(***************************************************************************)
(* Proofs about CommandTable, for any number of calls, IO threads and      *)
(* lidars, any path per call and any time-out.                             *)
(***************************************************************************)
EXTENDS CommandTable, FiniteSetTheorems, SequenceTheorems, TLAPS

(* A call has a sequence number exactly when it has started. *)
Started == \A c \in Calls : seqOf[c] # 0 <=> pc[c] # "idle"

(* Fewer calls than sequence numbers, so that GetSeq does not come round. *)
FewCalls == IsFiniteSet(Calls) /\ Cardinality(Calls) < MaxSeq

(* GetSeq gives every call a number of its own. *)
Numbered == {c \in Calls : seqOf[c] # 0}
SeqInv ==
  /\ seq = 1 + Cardinality(Numbered)
  /\ \A c \in Calls : seqOf[c] <= seq
  /\ \A c, d \in Calls : seqOf[c] = seqOf[d] /\ seqOf[c] # 0 => c = d

(* An entry stands under its call's number, a datagram carries it, and a datagram *)
(* exists only once its call has passed the send.                                 *)
TableInv == \A s \in Seqs : InTable(s) => seqOf[commands[s].call] = s
WireInv == \A d \in wire : d.seq = seqOf[d.call] /\ pc[d.call] \in {"last", "done"}

IndInv == TypeOK /\ Started /\ SeqInv /\ TableInv /\ WireInv

-----------------------------------------------------------------------------
(* Type correctness. *)

USE ConstantsAssumption DEF Seqs, Paths, Statuses

(* GenerateSeq stays within the width of the counter. *)
LEMMA NextSeqType == \A n \in Seqs : NextSeq(n) \in Seqs
  BY DEF NextSeq

(* An entry in use belongs to a call. *)
LEMMA EntryCall ==
  ASSUME TypeOK, NEW s \in Seqs, InTable(s)
  PROVE  commands[s].call \in Calls
  BY DEF TypeOK, InTable

(* What is left after CommandsHandle has erased entries is a table of commands. *)
LEMMA WithoutType ==
  ASSUME TypeOK, NEW S
  PROVE  Without(S) \in [Seqs -> [call : Calls \cup {NoCall}, left : 0..TimeOut]]
  BY DEF TypeOK, Without, NoEntry

(* CommandImpl starts with an empty table and the counter at 1. *)
LEMMA TypeInit == Init => TypeOK /\ Started
  <1> SUFFICES ASSUME Init PROVE TypeOK /\ Started
    OBVIOUS
  <1>1. NoEntry \in [call : Calls \cup {NoCall}, left : 0..TimeOut]
    BY DEF NoEntry
  <1> QED
    BY <1>1 DEF Init, TypeOK, Started

(* No step of a caller, an IO thread or the network takes a variable out of its type. *)
LEMMA TypeStep == TypeOK /\ Started /\ [Next]_vars => (TypeOK /\ Started)'
<1> SUFFICES ASSUME TypeOK, Started, [Next]_vars PROVE (TypeOK /\ Started)'
  OBVIOUS
<1>1. ASSUME NEW c \in Calls, GetSeq(c) PROVE (TypeOK /\ Started)'
  <2>1. NextSeq(seq) \in Seqs
    BY NextSeqType DEF TypeOK
  <2> QED
    BY <1>1, <2>1 DEF GetSeq, TypeOK, Started, sdk
<1>2. ASSUME NEW c \in Calls, Lookup(c) PROVE (TypeOK /\ Started)'
  BY <1>2 DEF Lookup, FirstStep, TypeOK, Started, sdk
<1>3. ASSUME NEW c \in Calls, AddCommand(c) PROVE (TypeOK /\ Started)'
  <2>1. Entry(c) \in [call : Calls \cup {NoCall}, left : 0..TimeOut]
    BY DEF Entry
  <2> QED
    BY <1>3, <2>1 DEF AddCommand, TypeOK, Started, sdk
<1>4. ASSUME NEW c \in Calls, Send(c) PROVE (TypeOK /\ Started)'
  BY <1>4 DEF Send, AfterSend, TypeOK, Started, sdk
<1>5. ASSUME NEW c \in Calls, SendFails(c) PROVE (TypeOK /\ Started)'
  BY <1>5 DEF SendFails, AfterSend, TypeOK, Started, sdk
<1>6. ASSUME NEW t \in IOThreads, CommandsHandle(t) PROVE (TypeOK /\ Started)'
  <2> DEFINE overdue == {s \in Seqs : Overdue(s)}
             claimed == {[call |-> commands[s].call, status |-> "Timeout"] : s \in overdue}
  <2>1. claimed \subseteq [call : Calls, status : Statuses]
    BY EntryCall DEF Overdue
  <2>2. commands' = Without(overdue) /\ todo' = [todo EXCEPT ![t] = claimed]
    BY <1>6 DEF CommandsHandle
  <2>3. UNCHANGED <<sdk, caller, wire, heard, reports>>
    BY <1>6 DEF CommandsHandle
  <2> HIDE DEF overdue, claimed
  <2>4. commands' \in [Seqs -> [call : Calls \cup {NoCall}, left : 0..TimeOut]]
    BY <2>2, WithoutType
  <2> QED
    BY <2>1, <2>2, <2>3, <2>4 DEF TypeOK, Started, sdk, caller
<1>7. ASSUME NEW t \in IOThreads, RunCallback(t) PROVE (TypeOK /\ Started)'
  BY <1>7 DEF RunCallback, TypeOK, Started, sdk, caller
<1>8. ASSUME NEW t \in IOThreads, NEW d \in wire, Handler(t, d) PROVE (TypeOK /\ Started)'
  <2> DEFINE hits == {s \in {d.seq} : InTable(s)}
             claimed == {[call |-> commands[s].call, status |-> "Success"] : s \in hits}
  <2>1. d.seq \in Seqs /\ d.call \in Calls
    BY DEF TypeOK
  <2>2. claimed \subseteq [call : Calls, status : Statuses]
    BY <2>1, EntryCall
  <2>3. commands' = Without({d.seq}) /\ todo' = [todo EXCEPT ![t] = claimed]
    BY <1>8 DEF Handler
  <2>4. heard' = heard \cup {d.call} /\ UNCHANGED <<sdk, caller, wire, reports>>
    BY <1>8 DEF Handler
  <2> HIDE DEF hits, claimed
  <2>5. commands' \in [Seqs -> [call : Calls \cup {NoCall}, left : 0..TimeOut]]
    BY <2>3, WithoutType
  <2> QED
    BY <2>1, <2>2, <2>3, <2>4, <2>5 DEF TypeOK, Started, sdk, caller
<1>9. ASSUME NEW d \in wire, LidarAcks(d) PROVE (TypeOK /\ Started)'
  BY <1>9 DEF LidarAcks, TypeOK, Started, sdk, caller
<1>10. ASSUME NEW l \in Lidars, Detect(l) PROVE (TypeOK /\ Started)'
  BY <1>10 DEF Detect, TypeOK, Started, caller
<1>11. ASSUME Tick PROVE (TypeOK /\ Started)'
  <2>1. ASSUME NEW s \in Seqs
        PROVE  commands'[s] \in [call : Calls \cup {NoCall}, left : 0..TimeOut]
    <3>1. commands[s] \in [call : Calls \cup {NoCall}, left : 0..TimeOut]
      BY DEF TypeOK
    <3>2. commands'[s] = IF commands[s].left > 0
                           THEN [commands[s] EXCEPT !.left = @ - 1] ELSE commands[s]
      BY <1>11 DEF Tick
    <3> QED
      BY <3>1, <3>2
  <2>2. commands' \in [Seqs -> [call : Calls \cup {NoCall}, left : 0..TimeOut]]
    BY <1>11, <2>1 DEF Tick
  <2> QED
    BY <1>11, <2>2 DEF Tick, TypeOK, Started, sdk, caller
<1>12. CASE SdkUninit
  BY <1>12 DEF SdkUninit, TypeOK, Started, caller
<1>13. CASE SdkInit
  BY <1>13 DEF SdkInit, TypeOK, Started, caller
<1>14. CASE UNCHANGED vars
  BY <1>14 DEF vars, TypeOK, Started
<1> QED
  BY <1>1, <1>2, <1>3, <1>4, <1>5, <1>6, <1>7, <1>8, <1>9, <1>10, <1>11, <1>12, <1>13, <1>14
     DEF Next, Caller

-----------------------------------------------------------------------------
(* Sequence numbers are unique. *)

LEMMA NumbersStep == ASSUME FewCalls PROVE IndInv /\ [Next]_vars => SeqInv'
<1> SUFFICES ASSUME IndInv, [Next]_vars PROVE SeqInv'
  OBVIOUS
<1>1. ASSUME NEW c \in Calls, GetSeq(c) PROVE SeqInv'
  <2>1. c \notin Numbered /\ Numbered \subseteq Calls
    BY <1>1 DEF GetSeq, IndInv, Started, Numbered
  <2>2. IsFiniteSet(Numbered)
    BY <2>1, FS_Subset DEF FewCalls
  <2>3. Cardinality(Numbered) \in Nat /\ Cardinality(Calls) \in Nat
    BY <2>2, FS_CardinalityType DEF FewCalls
  <2>4. Cardinality(Numbered \cup {c}) <= Cardinality(Calls)
    BY <2>1, FS_Subset DEF FewCalls
  <2>5. Cardinality(Numbered \cup {c}) = Cardinality(Numbered) + 1
    BY <2>1, <2>2, FS_AddElement
  <2>6. NextSeq(seq) = seq + 1
    BY <2>3, <2>4, <2>5 DEF NextSeq, FewCalls, IndInv, SeqInv
  <2>7. seq' = seq + 1 /\ seqOf' = [seqOf EXCEPT ![c] = seq + 1]
    BY <1>1, <2>6 DEF GetSeq
  <2>8. Numbered' = Numbered \cup {c}
    BY <2>7 DEF Numbered, IndInv, TypeOK
  <2>9. Cardinality(Numbered') = Cardinality(Numbered) + 1
    BY <2>8, <2>5
  <2>10. \A x \in Calls : seqOf[x] \in Nat /\ seqOf[x] <= seq /\ seq \in Nat
    BY DEF IndInv, SeqInv, TypeOK
  <2>11. \A x \in Calls : seqOf'[x] = IF x = c THEN seq + 1 ELSE seqOf[x]
    BY <2>7 DEF IndInv, TypeOK
  <2>12. \A x, y \in Calls : seqOf'[x] = seqOf'[y] /\ seqOf'[x] # 0 => x = y
    BY <2>10, <2>11 DEF IndInv, SeqInv
  <2>13. seq' = 1 + Cardinality(Numbered')
    BY <2>3, <2>7, <2>9 DEF IndInv, SeqInv
  <2> QED
    BY <2>7, <2>10, <2>11, <2>12, <2>13 DEF SeqInv
<1>2. CASE UNCHANGED <<seq, seqOf>>
  BY <1>2 DEF IndInv, SeqInv, Numbered
<1> QED
  BY <1>1, <1>2 DEF Next, Caller, Lookup, AddCommand, Send, SendFails, CommandsHandle,
     RunCallback, Handler, LidarAcks, Detect, Tick, SdkUninit, SdkInit, caller, vars

(* AddCommand files a command under its own number, and nothing else files one. *)
LEMMA TableStep == IndInv /\ [Next]_vars => TableInv'
<1> SUFFICES ASSUME IndInv, [Next]_vars, NEW s \in Seqs, InTable(s)'
             PROVE  seqOf'[commands'[s].call] = s
  BY DEF TableInv
<1> USE DEF IndInv
<1>1. ASSUME commands'[s].call = commands[s].call, seqOf' = seqOf
      PROVE  seqOf'[commands'[s].call] = s
  BY <1>1 DEF TableInv, InTable
<1>2. ASSUME NEW c \in Calls, GetSeq(c) PROVE seqOf'[commands'[s].call] = s
  <2>1. commands' = commands /\ seqOf[c] = 0
    BY <1>2 DEF GetSeq, Started
  <2>2. commands[s].call # c
    BY <2>1 DEF TableInv, InTable
  <2> QED
    BY <1>2, <2>1, <2>2, EntryCall DEF GetSeq, TypeOK, TableInv, InTable
<1>3. ASSUME NEW c \in Calls, AddCommand(c) PROVE seqOf'[commands'[s].call] = s
  BY <1>3 DEF AddCommand, TypeOK, TableInv, InTable, Entry, caller
<1>4. ASSUME NEW S, commands' = Without(S), seqOf' = seqOf
      PROVE  seqOf'[commands'[s].call] = s
  <2>1. commands'[s] = commands[s]
    BY <1>4 DEF Without, InTable, NoEntry
  <2> QED
    BY <1>1, <1>4, <2>1
<1>5. CASE Tick
  <2>1. commands'[s].call = commands[s].call
    <3>1. commands[s] \in [call : Calls \cup {NoCall}, left : 0..TimeOut]
      BY DEF TypeOK
    <3> QED
      BY <1>5, <3>1 DEF Tick
  <2> QED
    BY <1>1, <1>5, <2>1 DEF Tick, caller
<1>6. CASE UNCHANGED <<commands, seqOf>>
  BY <1>1, <1>6
<1>7. ASSUME NEW t \in IOThreads, CommandsHandle(t) PROVE seqOf'[commands'[s].call] = s
  BY <1>4, <1>7 DEF CommandsHandle, caller
<1>8. ASSUME NEW t \in IOThreads, NEW d \in wire, Handler(t, d)
      PROVE  seqOf'[commands'[s].call] = s
  BY <1>4, <1>8 DEF Handler, caller
<1> QED
  BY <1>2, <1>3, <1>5, <1>6, <1>7, <1>8 DEF Next, Caller, Lookup, Send, SendFails,
     RunCallback, LidarAcks, Detect, SdkUninit, SdkInit, caller, vars

(* SendCommand puts the call's own number on the wire, and the lidar's ack repeats it. *)
LEMMA WireStep == IndInv /\ [Next]_vars => WireInv'
<1> SUFFICES ASSUME IndInv, [Next]_vars PROVE WireInv'
  OBVIOUS
<1> USE DEF IndInv
<1>0. \A d \in wire : d.call \in Calls /\ d.seq \in Seqs
  BY DEF TypeOK
<1>1. ASSUME NEW c \in Calls, Caller(c) PROVE WireInv'
  <2>1. \A d \in wire : pc[d.call] \in {"last", "done"} /\ d.seq = seqOf[d.call]
    BY DEF WireInv
  <2>2. CASE GetSeq(c)
    BY <1>0, <2>1, <2>2 DEF GetSeq, WireInv, TypeOK
  <2>3. CASE Lookup(c)
    BY <1>0, <2>1, <2>3 DEF Lookup, WireInv, TypeOK
  <2>4. CASE AddCommand(c)
    BY <1>0, <2>1, <2>4 DEF AddCommand, WireInv, TypeOK
  <2>5. CASE Send(c)
    BY <1>0, <2>1, <2>5 DEF Send, AfterSend, WireInv, TypeOK
  <2>6. CASE SendFails(c)
    BY <1>0, <2>1, <2>6 DEF SendFails, AfterSend, WireInv, TypeOK
  <2> QED
    BY <1>1, <2>2, <2>3, <2>4, <2>5, <2>6 DEF Caller
<1>2. ASSUME NEW d \in wire, LidarAcks(d) PROVE WireInv'
  <2>1. d \in [kind : {"cmd", "ack"}, call : Calls, seq : Seqs]
    BY DEF TypeOK
  <2> QED
    BY <1>2, <2>1 DEF LidarAcks, WireInv, caller
<1>3. CASE UNCHANGED <<wire, pc, seqOf>>
  BY <1>3 DEF WireInv
<1> QED
  BY <1>1, <1>2, <1>3 DEF Next, CommandsHandle, RunCallback, Handler, Detect, Tick,
     SdkUninit, SdkInit, caller, vars

(* Nothing is called, filed or sent at first. *)
LEMMA IndInit == Init => IndInv
<1> SUFFICES ASSUME Init PROVE IndInv
  OBVIOUS
<1>1. TypeOK /\ Started
  BY TypeInit
<1>2. Numbered = {}
  BY DEF Init, Numbered
<1>3. SeqInv
  BY <1>2, FS_EmptySet DEF Init, SeqInv
<1> QED
  BY <1>1, <1>3 DEF Init, IndInv, TableInv, WireInv, InTable, NoEntry

(* The numbers, the table and the wire agree after every step of SendCommand, Handler *)
(* and CommandsHandle.                                                                *)
LEMMA IndStep == ASSUME FewCalls PROVE IndInv /\ [Next]_vars => IndInv'
  BY TypeStep, NumbersStep, TableStep, WireStep DEF IndInv

-----------------------------------------------------------------------------
(* No callback is lost, and an ack is claimed as Success. *)

(* The status was reported to the caller, or an IO thread is about to. *)
Got(c, status) == Claimed(c, status) \/ Reported(c, status)

(* What a claim or a report says stays said. *)
LEMMA GotStable ==
  ASSUME TypeOK, [Next]_vars, NEW c \in Calls, NEW status \in Statuses, Got(c, status)
  PROVE  Got(c, status)'
<1>1. ASSUME NEW x \in Calls, NEW y, reports' = [reports EXCEPT ![x] = Append(@, y)],
             Reported(c, status), y \in Statuses
      PROVE  Reported(c, status)'
  <2>1. PICK i \in DOMAIN reports[c] : reports[c][i] = status
    BY <1>1 DEF Reported
  <2>2. reports[c] \in Seq(Statuses)
    BY DEF TypeOK
  <2>3. reports'[c] = IF c = x THEN Append(reports[c], y) ELSE reports[c]
    BY <1>1 DEF TypeOK
  <2>4. i \in DOMAIN reports'[c] /\ reports'[c][i] = status
    BY <1>1, <2>1, <2>2, <2>3
  <2> QED
    BY <2>4 DEF Reported
<1>2. ASSUME NEW x \in Calls, SendFails(x) PROVE Got(c, status)'
  BY <1>1, <1>2 DEF SendFails, Got, Claimed
<1>3. ASSUME NEW t \in IOThreads, RunCallback(t) PROVE Got(c, status)'
  <2>1. PICK e \in todo[t] : /\ reports' = [reports EXCEPT ![e.call] = Append(@, e.status)]
                             /\ todo' = [todo EXCEPT ![t] = @ \ {e}]
    BY <1>3 DEF RunCallback
  <2>2. e \in [call : Calls, status : Statuses]
    BY DEF TypeOK
  <2>3. CASE Reported(c, status)
    BY <1>1, <2>1, <2>2, <2>3 DEF Got
  <2>4. CASE e = [call |-> c, status |-> status]
    <3>1. reports[c] \in Seq(Statuses)
      BY DEF TypeOK
    <3>2. reports'[c] = Append(reports[c], status)
      BY <2>1, <2>4 DEF TypeOK
    <3>3. Len(reports[c]) + 1 \in DOMAIN reports'[c]
          /\ reports'[c][Len(reports[c]) + 1] = status
      BY <3>1, <3>2
    <3> QED
      BY <3>3 DEF Got, Reported
  <2>5. CASE Claimed(c, status) /\ e # [call |-> c, status |-> status]
    BY <2>1, <2>5 DEF Got, Claimed, TypeOK
  <2> QED
    BY <2>3, <2>4, <2>5 DEF Got
<1>4. ASSUME NEW t \in IOThreads, NEW S, todo[t] = {}, todo' = [todo EXCEPT ![t] = S],
             reports' = reports
      PROVE  Got(c, status)'
  BY <1>4 DEF Got, Claimed, Reported, TypeOK
<1>5. ASSUME NEW t \in IOThreads, CommandsHandle(t) PROVE Got(c, status)'
  BY <1>4, <1>5 DEF CommandsHandle
<1>6. ASSUME NEW t \in IOThreads, NEW d \in wire, Handler(t, d) PROVE Got(c, status)'
  BY <1>4, <1>6 DEF Handler
<1>7. CASE UNCHANGED <<todo, reports>>
  BY <1>7 DEF Got, Claimed, Reported
<1> QED
  BY <1>2, <1>3, <1>5, <1>6, <1>7 DEF Next, Caller, GetSeq, Lookup, AddCommand, Send,
     LidarAcks, Detect, Tick, SdkUninit, SdkInit, caller, vars

(* A call's entry leaves the table only into a claim: no other call has its      *)
(* sequence number, so AddCommand overwrites nothing but the call's own entry.   *)
LEMMA EntryKept ==
  ASSUME IndInv, [Next]_vars, NEW c \in Calls, Entered(c)
  PROVE  Entered(c)' \/ Claimed(c, "Success")' \/ Claimed(c, "Timeout")'
<1> DEFINE Goal == Entered(c)' \/ Claimed(c, "Success")' \/ Claimed(c, "Timeout")'
<1> USE DEF IndInv
<1>0. PICK s \in Seqs : commands[s].call = c
  BY DEF Entered
<1>00. InTable(s) /\ seqOf[c] = s
  BY <1>0 DEF InTable, TableInv
<1>1. ASSUME NEW x \in Calls, AddCommand(x) PROVE Goal
  <2>1. x # c => seqOf[x] # s
    BY <1>00 DEF SeqInv
  <2>2. commands'[s].call = c
    BY <1>0, <1>00, <1>1, <2>1 DEF AddCommand, TypeOK, Entry
  <2> QED
    BY <2>2 DEF Entered
<1>2. ASSUME NEW t \in IOThreads, CommandsHandle(t) PROVE Goal
  <2>1. CASE Overdue(s)
    <3>1. [call |-> c, status |-> "Timeout"] \in todo'[t]
      BY <1>0, <1>2, <2>1 DEF CommandsHandle, TypeOK
    <3> QED
      BY <3>1 DEF Claimed
  <2>2. CASE ~Overdue(s)
    <3>1. commands'[s] = commands[s]
      BY <1>2, <2>2 DEF CommandsHandle, Without
    <3> QED
      BY <1>0, <3>1 DEF Entered
  <2> QED
    BY <2>1, <2>2
<1>3. ASSUME NEW t \in IOThreads, NEW d \in wire, Handler(t, d) PROVE Goal
  <2>1. CASE d.seq = s
    <3>1. [call |-> c, status |-> "Success"] \in todo'[t]
      BY <1>0, <1>00, <1>3, <2>1 DEF Handler, TypeOK
    <3> QED
      BY <3>1 DEF Claimed
  <2>2. CASE d.seq # s
    <3>1. commands'[s] = commands[s]
      BY <1>3, <2>2 DEF Handler, Without
    <3> QED
      BY <1>0, <3>1 DEF Entered
  <2> QED
    BY <2>1, <2>2
<1>4. CASE Tick
  <2>1. commands[s] \in [call : Calls \cup {NoCall}, left : 0..TimeOut]
    BY DEF TypeOK
  <2>2. commands'[s].call = c
    BY <1>0, <1>4, <2>1 DEF Tick
  <2> QED
    BY <2>2 DEF Entered
<1>5. CASE UNCHANGED commands
  BY <1>0, <1>5 DEF Entered
<1> QED
  BY <1>1, <1>2, <1>3, <1>4, <1>5 DEF Next, Caller, GetSeq, Lookup, Send, SendFails,
     RunCallback, LidarAcks, Detect, SdkUninit, SdkInit, caller, vars

(* A call that added its command: the entry is there, or it was claimed. *)
Settled(c) == Entered(c) \/ Got(c, "Success") \/ Got(c, "Timeout")
Added(c) == pc[c] = "done" \/ (Path[c] # "Mid360" /\ pc[c] \in {"send", "last"})
SettledInv == \A c \in Calls : Added(c) => Settled(c)

(* Once AddCommand has run, only a claim by Handler or CommandsHandle takes the entry. *)
LEMMA SettledStep == IndInv /\ SettledInv /\ [Next]_vars => SettledInv'
<1> SUFFICES ASSUME IndInv, SettledInv, [Next]_vars, NEW c \in Calls, Added(c)'
             PROVE  Settled(c)'
  BY DEF SettledInv
<1>1. ASSUME Settled(c) PROVE Settled(c)'
  <2>1. CASE Entered(c)
    BY <2>1, EntryKept DEF Settled, Got
  <2>2. CASE Got(c, "Success") \/ Got(c, "Timeout")
    BY <2>2, GotStable DEF IndInv, Settled
  <2> QED
    BY <1>1, <2>1, <2>2 DEF Settled
<1>2. CASE Added(c)
  BY <1>1, <1>2 DEF SettledInv
<1>3. CASE AddCommand(c)
  <2>1. commands'[seqOf[c]].call = c /\ seqOf[c] \in Seqs
    BY <1>3 DEF AddCommand, IndInv, TypeOK, Started, Entry
  <2> QED
    BY <2>1 DEF Settled, Entered
<1>4. CASE ~Added(c) /\ ~AddCommand(c)
  <2>1. pc[c] # pc'[c]
    BY <1>4 DEF Added
  <2>2. PICK x \in Calls : Caller(x)
    BY <2>1 DEF Next, vars, CommandsHandle, RunCallback, Handler, LidarAcks, Detect, Tick,
       SdkUninit, SdkInit, caller
  <2>3. x = c
    BY <2>1, <2>2 DEF Caller, GetSeq, Lookup, AddCommand, Send, SendFails, IndInv, TypeOK
  <2>4. pc[c] = "send" => Path[c] # "Port"
    BY <1>4 DEF Added
  <2> QED
    BY <1>4, <2>2, <2>3, <2>4 DEF Added, Caller, GetSeq, Lookup, Send, SendFails, FirstStep,
       AfterSend, IndInv, TypeOK
<1> QED
  BY <1>2, <1>3, <1>4

(* Handler claims the entry of the ack it reads, on the paths that add before they send. *)
LEMMA HeardStep ==
  IndInv /\ SettledInv /\ HeardAckIsClaimed /\ [Next]_vars => HeardAckIsClaimed'
<1> SUFFICES ASSUME IndInv, SettledInv, HeardAckIsClaimed, [Next]_vars,
                    NEW c \in heard', Path[c] # "Mid360", ~Got(c, "Timeout")'
             PROVE  Got(c, "Success")'
  BY DEF HeardAckIsClaimed, Got
<1>0. heard' \subseteq Calls
  BY TypeStep DEF IndInv, TypeOK
<1>1. ~Got(c, "Timeout")
  BY <1>0, GotStable DEF IndInv
<1>2. CASE c \in heard
  <2>1. Got(c, "Success")
    BY <1>1, <1>2 DEF HeardAckIsClaimed, Got
  <2> QED
    BY <1>0, <2>1, GotStable DEF IndInv
<1>3. CASE c \notin heard
  <2>1. PICK t \in IOThreads, d \in wire : Handler(t, d)
    BY <1>3 DEF Next, Caller, GetSeq, Lookup, AddCommand, Send, SendFails, CommandsHandle,
       RunCallback, LidarAcks, Detect, Tick, SdkUninit, SdkInit, vars
  <2>2. d.call = c /\ d.seq = seqOf[c] /\ pc[c] \in {"last", "done"}
    BY <1>3, <2>1 DEF Handler, IndInv, WireInv
  <2>3. Settled(c)
    BY <1>0, <2>2 DEF SettledInv, Added
  <2>4. CASE Got(c, "Success")
    BY <1>0, <2>4, GotStable DEF IndInv
  <2>5. CASE Entered(c)
    <3>1. PICK s \in Seqs : commands[s].call = c
      BY <2>5 DEF Entered
    <3>2. InTable(s) /\ s = d.seq
      BY <1>0, <2>2, <3>1 DEF InTable, IndInv, TableInv
    <3>3. [call |-> c, status |-> "Success"] \in todo'[t]
      BY <2>1, <3>1, <3>2 DEF Handler, IndInv, TypeOK
    <3> QED
      BY <3>3 DEF Got, Claimed
  <2> QED
    BY <1>1, <2>3, <2>4, <2>5 DEF Settled
<1> QED
  BY <1>2, <1>3

-----------------------------------------------------------------------------
(* Success is reported only for an answer to the very command. *)

Answered(c) == \E d \in wire : d.kind = "ack" /\ d.call = c

(* Success is claimed by Handler only, for an ack of the lidar to this call. *)
LEMMA AnsweredStep ==
  IndInv /\ SuccessMeansAnswered /\ [Next]_vars => SuccessMeansAnswered'
<1> SUFFICES ASSUME IndInv, SuccessMeansAnswered, [Next]_vars,
                    NEW c \in Calls, Got(c, "Success")'
             PROVE  Answered(c)'
  BY DEF SuccessMeansAnswered, Got, Answered
<1> USE DEF IndInv
<1>1. wire \subseteq wire'
  BY DEF Next, Caller, GetSeq, Lookup, AddCommand, Send, SendFails, CommandsHandle, Handler,
     RunCallback, LidarAcks, Detect, Tick, SdkUninit, SdkInit, vars
<1>2. CASE Got(c, "Success")
  BY <1>1, <1>2 DEF SuccessMeansAnswered, Got, Answered
<1>3. ASSUME NEW t \in IOThreads, NEW d \in wire, Handler(t, d), ~Got(c, "Success")
      PROVE  Answered(c)'
  <2>1. Claimed(c, "Success")'
    BY <1>3 DEF Handler, Got, Reported
  <2>2. PICK u \in IOThreads : [call |-> c, status |-> "Success"] \in todo'[u]
    BY <2>1 DEF Claimed
  <2>3. u = t /\ InTable(d.seq) /\ commands[d.seq].call = c
    BY <1>3, <2>2 DEF Handler, Got, Claimed, TypeOK
  <2>4. d \in [kind : {"cmd", "ack"}, call : Calls, seq : Seqs]
    BY DEF TypeOK
  <2>5. seqOf[c] = d.seq /\ seqOf[d.call] = d.seq /\ d.seq # 0
    BY <2>3, <2>4 DEF TableInv, WireInv
  <2>6. d.call = c
    BY <2>4, <2>5 DEF SeqInv
  <2> QED
    BY <1>1, <1>3, <2>6 DEF Handler, Answered
<1>4. ASSUME NEW t \in IOThreads, CommandsHandle(t) PROVE Got(c, "Success")
  <2>1. ASSUME NEW e \in todo'[t] PROVE e.status # "Success"
    BY <1>4, <2>1 DEF CommandsHandle, TypeOK
  <2>2. ASSUME NEW u \in IOThreads, [call |-> c, status |-> "Success"] \in todo'[u]
        PROVE  [call |-> c, status |-> "Success"] \in todo[u]
    BY <1>4, <2>1, <2>2 DEF CommandsHandle, TypeOK
  <2> QED
    BY <1>4, <2>2 DEF CommandsHandle, Got, Claimed, Reported
<1>5. ASSUME NEW x \in Calls, NEW y, reports' = [reports EXCEPT ![x] = Append(@, y)],
             Reported(c, "Success")', ~Reported(c, "Success")
      PROVE  x = c /\ y = "Success"
  <2>1. reports[c] \in Seq(Statuses)
    BY DEF TypeOK
  <2>2. reports'[c] = IF c = x THEN Append(reports[c], y) ELSE reports[c]
    BY <1>5 DEF TypeOK
  <2> QED
    BY <1>5, <2>1, <2>2 DEF Reported
<1>6. ASSUME NEW t \in IOThreads, RunCallback(t) PROVE Got(c, "Success")
  <2>1. PICK e \in todo[t] : /\ reports' = [reports EXCEPT ![e.call] = Append(@, e.status)]
                             /\ todo' = [todo EXCEPT ![t] = @ \ {e}]
    BY <1>6 DEF RunCallback
  <2>2. e \in [call : Calls, status : Statuses]
    BY DEF TypeOK
  <2>3. CASE Claimed(c, "Success")'
    BY <2>1, <2>3 DEF Claimed, Got, TypeOK
  <2>4. CASE Reported(c, "Success")' /\ ~Reported(c, "Success")
    <3>1. e.call = c /\ e.status = "Success"
      BY <1>5, <2>1, <2>2, <2>4
    <3>2. e = [call |-> c, status |-> "Success"]
      BY <2>2, <3>1
    <3> QED
      BY <2>1, <3>2 DEF Got, Claimed
  <2> QED
    BY <2>3, <2>4 DEF Got
<1>7. ASSUME NEW x \in Calls, SendFails(x) PROVE Got(c, "Success")
  <2>1. reports' = [reports EXCEPT ![x] = Append(@, "SendFailed")] /\ todo' = todo
    BY <1>7 DEF SendFails
  <2>2. CASE Claimed(c, "Success")'
    BY <2>1, <2>2 DEF Got, Claimed
  <2>3. CASE Reported(c, "Success")'
    <3>1. reports[c] \in Seq(Statuses)
      BY DEF TypeOK
    <3>2. reports'[c] = IF c = x THEN Append(reports[c], "SendFailed") ELSE reports[c]
      BY <2>1 DEF TypeOK
    <3>3. PICK i \in DOMAIN reports'[c] : reports'[c][i] = "Success"
      BY <2>3 DEF Reported
    <3>4. i \in DOMAIN reports[c] /\ reports[c][i] = "Success"
      BY <3>1, <3>2, <3>3
    <3> QED
      BY <3>4 DEF Got, Reported
  <2> QED
    BY <2>2, <2>3 DEF Got
<1>8. CASE UNCHANGED <<todo, reports>>
  BY <1>2, <1>8 DEF Got, Claimed, Reported
<1> QED
  BY <1>2, <1>3, <1>4, <1>6, <1>7, <1>8 DEF Next, Caller, GetSeq, Lookup, AddCommand, Send,
     LidarAcks, Detect, Tick, SdkUninit, SdkInit, caller, vars

-----------------------------------------------------------------------------
(* Time-outs, on the path where AddCommand comes first and only once. *)

(* The entry of a command whose ack was heard is gone and does not come back. *)
HeardErased == \A c \in heard : Path[c] = "Port" => ~Entered(c) /\ pc[c] = "done"
NoReadd == \A c \in Calls : Path[c] = "Port" => pc[c] # "last"

(* After Handler erased a command, nothing of a Port call adds it again. *)
LEMMA ErasedStep == IndInv /\ HeardErased /\ NoReadd /\ [Next]_vars => HeardErased' /\ NoReadd'
<1> SUFFICES ASSUME IndInv, HeardErased, NoReadd, [Next]_vars
             PROVE  HeardErased' /\ NoReadd'
  OBVIOUS
<1> USE DEF IndInv
<1>0. heard \subseteq Calls
  BY DEF TypeOK
<1>1. NoReadd'
  BY DEF NoReadd, TypeOK, Next, Caller, GetSeq, Lookup, FirstStep, AddCommand, Send, AfterSend,
     SendFails, CommandsHandle, Handler, RunCallback, LidarAcks, Detect, Tick, SdkUninit,
     SdkInit, sdk, caller, vars
<1>2. ASSUME NEW x \in Calls, AddCommand(x) PROVE HeardErased'
  <2>1. Path[x] = "Port" => x \notin heard
    BY <1>2 DEF AddCommand, HeardErased, NoReadd
  <2>2. \A s \in Seqs : commands'[s].call = x \/ commands'[s] = commands[s]
    BY <1>2 DEF AddCommand, Entry, TypeOK
  <2> QED
    BY <1>0, <1>2, <2>1, <2>2 DEF AddCommand, HeardErased, Entered, TypeOK
<1>3. ASSUME NEW S, commands' = Without(S), heard' = heard, pc' = pc PROVE HeardErased'
  <2>1. \A s \in Seqs : commands'[s].call = NoCall \/ commands'[s] = commands[s]
    BY <1>3 DEF Without, NoEntry
  <2> QED
    BY <1>0, <1>3, <2>1 DEF HeardErased, Entered
<1>4. ASSUME NEW t \in IOThreads, NEW d \in wire, Handler(t, d) PROVE HeardErased'
  <2>1. d \in [kind : {"cmd", "ack"}, call : Calls, seq : Seqs]
    BY DEF TypeOK
  <2>2. commands' = Without({d.seq}) /\ heard' = heard \cup {d.call} /\ pc' = pc
    BY <1>4 DEF Handler, caller
  <2>3. \A s \in Seqs : commands'[s].call = NoCall
                        \/ (s # d.seq /\ commands'[s] = commands[s])
    BY <2>2 DEF Without, NoEntry
  <2>4. (Path[d.call] = "Port" => pc[d.call] = "done") /\ seqOf[d.call] = d.seq
    BY <2>1 DEF WireInv, NoReadd
  <2>5. ~Entered(d.call)'
    BY <2>1, <2>3, <2>4 DEF Entered, TableInv, InTable
  <2> QED
    <3>1. ASSUME NEW c \in heard', Path[c] = "Port" PROVE ~Entered(c)' /\ pc'[c] = "done"
      <4>1. CASE c = d.call
        BY <2>2, <2>4, <2>5, <3>1, <4>1
      <4>2. CASE c # d.call
        <5>1. c \in heard /\ ~Entered(c) /\ pc[c] = "done" /\ c \in Calls
          BY <1>0, <2>2, <3>1, <4>2 DEF HeardErased
        <5>2. \A s \in Seqs : commands'[s].call # c
          BY <2>3, <5>1 DEF Entered
        <5>3. pc'[c] = "done"
          BY <2>2, <5>1
        <5> QED
          BY <5>2, <5>3 DEF Entered
      <4> QED
        BY <4>1, <4>2
    <3> QED
      BY <3>1 DEF HeardErased
<1>5. CASE Tick
  <2>1. ASSUME NEW s \in Seqs PROVE commands'[s].call = commands[s].call
    <3>1. commands[s] \in [call : Calls \cup {NoCall}, left : 0..TimeOut]
      BY DEF TypeOK
    <3> QED
      BY <1>5, <3>1 DEF Tick
  <2> QED
    BY <1>1, <1>5, <2>1 DEF Tick, HeardErased, Entered, caller
<1>6. ASSUME commands' = commands, heard' = heard, NEW x \in Calls,
             pc[x] # "done", NEW y, pc' = [pc EXCEPT ![x] = y]
      PROVE  HeardErased'
  BY <1>0, <1>6 DEF HeardErased, Entered, TypeOK
<1>7. CASE UNCHANGED <<commands, heard, pc>>
  BY <1>1, <1>7 DEF HeardErased, Entered
<1> QED
  BY <1>1, <1>2, <1>3, <1>4, <1>5, <1>6, <1>7 DEF Next, Caller, GetSeq, Lookup, Send,
     SendFails, CommandsHandle, RunCallback, LidarAcks, Detect, SdkUninit, SdkInit, caller, vars

(* The step property follows from HeardErased before and after the step. *)
LEMMA TimeoutStep ==
  ASSUME IndInv, HeardErased, Next, NEW c \in Calls, Path[c] = "Port", TimesOut(c)
  PROVE  c \notin heard
<1>1. PICK t \in IOThreads : [call |-> c, status |-> "Timeout"] \in todo'[t]
  BY DEF TimesOut, Claimed
<1>2. [call |-> c, status |-> "Timeout"] \notin todo[t]
  BY DEF TimesOut, Claimed
<1>3. ASSUME NEW u \in IOThreads, NEW d \in wire, Handler(u, d) PROVE FALSE
  BY <1>1, <1>2, <1>3 DEF Handler, IndInv, TypeOK
<1>4. ASSUME NEW u \in IOThreads, RunCallback(u) PROVE FALSE
  BY <1>1, <1>2, <1>4 DEF RunCallback, IndInv, TypeOK
<1>5. ASSUME NEW u \in IOThreads, CommandsHandle(u) PROVE Entered(c)
  BY <1>1, <1>2, <1>5 DEF CommandsHandle, IndInv, TypeOK, Entered
<1>6. todo' # todo
  BY <1>1, <1>2
<1>7. Entered(c)
  BY <1>3, <1>4, <1>5, <1>6 DEF Next, Caller, GetSeq, Lookup, AddCommand, Send, SendFails,
     LidarAcks, Detect, Tick, SdkUninit, SdkInit
<1> QED
  BY <1>7 DEF HeardErased

-----------------------------------------------------------------------------
(* The table implements CommandService. *)

One(b) == IF b THEN 1 ELSE 0
Failed(c) == Reported(c, "SendFailed")

(* The IO threads that are about to report to c, and what may still be reported. *)
Holders(c) == {t \in IOThreads : \E e \in todo[t] : e.call = c}
Outstanding(c) == Cardinality(Holders(c)) + One(Entered(c))

(* How often c was added to the table. *)
Adds(c) ==
  IF Path[c] = "Mid360" THEN One(pc[c] = "done")
  ELSE IF Path[c] = "Port" THEN One(pc[c] \in {"send", "done"})
  ELSE IF pc[c] = "done" THEN 2 ELSE One(pc[c] \in {"send", "last"})

(* A thread claims a call once, as answered or as late. *)
OneClaim ==
  \A t \in IOThreads : \A e, f \in todo[t] :
    e.status \in {"Success", "Timeout"} /\ (e.call = f.call => e = f)

PathInv == \A c \in Calls : /\ Path[c] = "Port" => pc[c] # "last"
                            /\ Path[c] = "Mid360" => pc[c] # "add"

(* What was reported, is claimed or stands in the table was added, but for the one *)
(* report of a send that failed; and what was not sent is not answered.            *)
Spent(c) ==
  /\ IsFiniteSet(Holders(c))
  /\ Len(reports[c]) + Outstanding(c) <= Adds(c) + One(Failed(c))
  /\ reports[c] # << >> => reports[c] \in HistoriesOf(Path[c])
  /\ Failed(c) => pc[c] \in {"last", "done"} /\ \A d \in wire : d.call # c

HistInv == OneClaim /\ PathInv /\ \A c \in Calls : Spent(c)

(* Short histories are told apart by their statuses. *)
LEMMA OneMore == ASSUME NEW a, NEW b PROVE Append(<<a>>, b) = <<a, b>>
<1> DEFINE u == Append(<<a>>, b)
           v == <<a, b>>
<1>1. u \in Seq({a, b}) /\ v \in Seq({a, b}) /\ Len(u) = Len(v)
  OBVIOUS
<1>2. \A i \in 1..Len(u) : u[i] = v[i]
  OBVIOUS
<1> HIDE DEF u, v
<1>3. u = v
  BY <1>1, <1>2, SeqEqual
<1> QED
  BY <1>3 DEF u, v

(* The same of a history of two. *)
LEMMA TwoMore == ASSUME NEW a, NEW b, NEW c PROVE Append(<<a, b>>, c) = <<a, b, c>>
<1> DEFINE u == Append(<<a, b>>, c)
           v == <<a, b, c>>
<1>1. u \in Seq({a, b, c}) /\ v \in Seq({a, b, c}) /\ Len(u) = Len(v)
  OBVIOUS
<1>2. \A i \in 1..Len(u) : u[i] = v[i]
  OBVIOUS
<1> HIDE DEF u, v
<1>3. u = v
  BY <1>1, <1>2, SeqEqual
<1> QED
  BY <1>3 DEF u, v

Holds(h, status) == \E i \in DOMAIN h : h[i] = status

(* A history that holds a status has it at one of its places. *)
LEMMA HoldsIn ==
  /\ \A a, x : Holds(<<a>>, x) <=> x = a
  /\ \A a, b, x : Holds(<<a, b>>, x) <=> x = a \/ x = b
  /\ \A a, b, c, x : Holds(<<a, b, c>>, x) <=> x = a \/ x = b \/ x = c
<1>1. /\ \A a : DOMAIN <<a>> = {1} /\ <<a>>[1] = a
      /\ \A a, b : DOMAIN <<a, b>> = {1, 2} /\ <<a, b>>[1] = a /\ <<a, b>>[2] = b
      /\ \A a, b, c : /\ DOMAIN <<a, b, c>> = {1, 2, 3}
                     /\ <<a, b, c>>[1] = a /\ <<a, b, c>>[2] = b /\ <<a, b, c>>[3] = c
  OBVIOUS
<1>2. ASSUME NEW a, NEW x PROVE Holds(<<a>>, x) <=> x = a
  BY <1>1 DEF Holds
<1>3. ASSUME NEW a, NEW b, NEW x PROVE Holds(<<a, b>>, x) <=> x = a \/ x = b
  BY <1>1 DEF Holds
<1>4. ASSUME NEW a, NEW b, NEW c, NEW x PROVE Holds(<<a, b, c>>, x) <=> x = a \/ x = b \/ x = c
  BY <1>1 DEF Holds
<1> QED
  BY <1>2, <1>3, <1>4

(* What the next report may be after each history that is not full. *)
LEMMA Short ==
  LET S == "Success"
      T == "Timeout"
      F == "SendFailed"
  IN /\ ~Holds(<<S>>, F) /\ ~Holds(<<T>>, F) /\ Holds(<<F>>, F)
     /\ ~Holds(<<S, S>>, F) /\ ~Holds(<<S, T>>, F) /\ ~Holds(<<T, S>>, F) /\ ~Holds(<<T, T>>, F)
     /\ Holds(<<F, T>>, F) /\ Holds(<<T, F>>, F)
     /\ Holds(<<F, T, T>>, F) /\ Holds(<<T, F, T>>, F)
     /\ Holds(<<S>>, S) /\ Holds(<<S, S>>, S) /\ Holds(<<S, T>>, S) /\ Holds(<<T, S>>, S)
  BY HoldsIn

(* One report more of a claim is a history of the path as long as an add is left for it. *)
LEMMA HistoryOfClaim ==
  ASSUME NEW path \in Paths, NEW h \in Seq(Statuses), NEW status \in {"Success", "Timeout"},
         h # << >> => h \in HistoriesOf(path),
         Holds(h, "SendFailed") => status = "Timeout",
         Len(h) + 1 <= (IF path = "Hap" THEN 2 ELSE 1) + One(Holds(h, "SendFailed"))
  PROVE  Append(h, status) \in HistoriesOf(path)
<1> DEFINE S == "Success"
           T == "Timeout"
           F == "SendFailed"
<1>0. Len(h) \in Nat
  OBVIOUS
<1>a. Holds(h, F) => Len(h) <= IF path = "Hap" THEN 2 ELSE 1
  BY <1>0 DEF One
<1>b. ~Holds(h, F) => Len(h) <= IF path = "Hap" THEN 1 ELSE 0
  BY <1>0 DEF One
<1>1. CASE h = << >>
  BY <1>1 DEF Paths, HistoriesOf
<1>2. CASE h # << >> /\ path # "Hap"
  <2>1. h \in {<<S>>, <<T>>, <<F>>, <<F, T>>, <<T, F>>}
    BY <1>2 DEF HistoriesOf, Paths
  <2>2. Len(h) # 0
    BY <1>2, EmptySeq
  <2>3. Holds(h, F) /\ Len(h) <= 1
    BY <1>0, <1>2, <1>a, <1>b, <2>2
  <2>4. h = <<F>>
    <3>1. ASSUME h = <<F, T>> PROVE FALSE
      BY <2>3, <3>1
    <3>2. ASSUME h = <<T, F>> PROVE FALSE
      BY <2>3, <3>2
    <3> QED
      BY <2>1, <2>3, <3>1, <3>2, Short
  <2>5. Append(h, status) = <<F, T>>
    BY <2>3, <2>4, OneMore
  <2> QED
    BY <1>2, <2>5 DEF HistoriesOf, Paths
<1>4. CASE h # << >> /\ path = "Hap"
  <2>1. h \in {<<S>>, <<T>>, <<F>>, <<S, S>>, <<S, T>>, <<T, S>>, <<T, T>>,
               <<F, T>>, <<T, F>>, <<F, T, T>>, <<T, F, T>>}
    BY <1>4 DEF HistoriesOf
  <2>2. Len(h) <= 2
    BY <1>0, <1>4, <1>a, <1>b
  <2>3. h # <<F, T, T>> /\ h # <<T, F, T>>
    <3>1. ASSUME h = <<F, T, T>> PROVE FALSE
      BY <2>2, <3>1
    <3>2. ASSUME h = <<T, F, T>> PROVE FALSE
      BY <2>2, <3>2
    <3> QED
      BY <3>1, <3>2
  <2>4. CASE Holds(h, F)
    <3>1. h \in {<<F>>, <<F, T>>, <<T, F>>}
      BY <2>1, <2>3, <2>4, Short
    <3>2. status = T
      BY <2>4
    <3>3. /\ Append(<<F>>, T) = <<F, T>>
          /\ Append(<<F, T>>, T) = <<F, T, T>> /\ Append(<<T, F>>, T) = <<T, F, T>>
      BY OneMore, TwoMore
    <3>4. Append(h, status) \in {<<F, T>>, <<F, T, T>>, <<T, F, T>>}
      BY <3>1, <3>2, <3>3
    <3> QED
      BY <1>4, <3>4 DEF HistoriesOf
  <2>5. CASE ~Holds(h, F)
    <3>1. Len(h) <= 1
      BY <1>4, <1>b, <2>5
    <3>2. h \in {<<S>>, <<T>>, <<S, S>>, <<S, T>>, <<T, S>>, <<T, T>>}
      BY <2>1, <2>5, Short
    <3>3. ASSUME NEW a, NEW b, h = <<a, b>> PROVE FALSE
      BY <3>1, <3>3
    <3>4. Append(h, status) \in {<<S, S>>, <<S, T>>, <<T, S>>, <<T, T>>}
      BY <3>2, <3>3, OneMore
    <3> QED
      BY <1>4, <3>4 DEF HistoriesOf
  <2> QED
    BY <2>4, <2>5
<1> QED
  BY <1>1, <1>2, <1>4 DEF Paths

(* A send fails before an answer, and after one time-out at most. *)
LEMMA HistoryOfFailure ==
  ASSUME NEW path \in Paths, NEW h \in Seq(Statuses),
         h # << >> => h \in HistoriesOf(path),
         ~Holds(h, "SendFailed"), ~Holds(h, "Success"),
         Len(h) <= IF path = "Mid360" THEN 0 ELSE 1
  PROVE  Append(h, "SendFailed") \in HistoriesOf(path)
<1> DEFINE S == "Success"
           T == "Timeout"
           F == "SendFailed"
<1>1. CASE h = << >>
  BY <1>1 DEF Paths, HistoriesOf
<1>2. CASE h # << >>
  <2>1. path # "Mid360" /\ Len(h) <= 1
    BY <1>2, EmptySeq
  <2>2. h \in {<<S>>, <<T>>, <<F>>, <<S, S>>, <<S, T>>, <<T, S>>, <<T, T>>,
               <<F, T>>, <<T, F>>, <<F, T, T>>, <<T, F, T>>}
    BY <1>2, <2>1 DEF HistoriesOf, Paths
  <2>3. h \in {<<T>>, <<T, T>>}
    BY <2>2, Short
  <2>4. h # <<T, T>>
    <3>1. ASSUME h = <<T, T>> PROVE FALSE
      BY <2>1, <3>1
    <3> QED
      BY <3>1
  <2>5. Append(h, F) = <<T, F>>
    BY <2>3, <2>4, OneMore
  <2> QED
    BY <2>1, <2>5 DEF HistoriesOf, Paths
<1> QED
  BY <1>1, <1>2

(* Before a call has a sequence number nothing stands, is claimed or is reported for it. *)
LEMMA HistInit == Init => HistInv
<1> SUFFICES ASSUME Init PROVE HistInv
  OBVIOUS
<1>1. OneClaim /\ PathInv
  BY DEF Init, OneClaim, PathInv
<1>2. ASSUME NEW c \in Calls PROVE Spent(c)
  <2>1. Holders(c) = {} /\ ~Entered(c) /\ ~Failed(c) /\ reports[c] = << >>
    BY ConstantsAssumption DEF Init, Holders, Entered, NoEntry, Failed, Reported
  <2>2. Len(reports[c]) = 0 /\ Cardinality(Holders(c)) = 0 /\ IsFiniteSet(Holders(c))
    BY <2>1, FS_EmptySet
  <2> QED
    BY <2>1, <2>2 DEF Init, Spent, Outstanding, Adds, One
<1> QED
  BY <1>1, <1>2 DEF HistInv

(* A step that claims and reports nothing, and sends nothing for a call that failed: *)
(* what may be reported grows no faster than the adds.                               *)
LEMMA SpentKept ==
  ASSUME TypeOK, NEW c \in Calls, Spent(c), todo' = todo, reports' = reports,
         Failed(c) => pc'[c] \in {"last", "done"} /\ \A d \in wire' : d.call # c,
         Adds(c) + One(Entered(c)') <= Adds(c)' + One(Entered(c))
  PROVE  Spent(c)'
<1>1. Holders(c)' = Holders(c) /\ (Failed(c)' <=> Failed(c))
  BY DEF Holders, Failed, Reported
<1>2. Cardinality(Holders(c)) \in Nat /\ Len(reports[c]) \in Nat
  BY FS_CardinalityType DEF Spent, TypeOK
<1>3. Adds(c) \in Nat /\ Adds(c)' \in Nat
  BY DEF Adds, One
<1>4. Len(reports[c])' + Outstanding(c)' <= Adds(c)' + One(Failed(c))'
  BY <1>1, <1>2, <1>3 DEF Spent, Outstanding, One
<1> QED
  BY <1>1, <1>4 DEF Spent

(* A thread that claims calls takes their entries from the table. *)
LEMMA ClaimKept ==
  ASSUME TypeOK, TableInv, HistInv, NEW t \in IOThreads, todo[t] = {},
         NEW S \in SUBSET Seqs, \A s \in S : InTable(s),
         NEW status \in {"Success", "Timeout"},
         todo' = [todo EXCEPT ![t] = {[call |-> commands[s].call, status |-> status] : s \in S}],
         \A s \in Seqs : commands'[s].call = IF s \in S THEN NoCall ELSE commands[s].call,
         pc' = pc, seqOf' = seqOf, wire' = wire, reports' = reports
  PROVE  HistInv'
<1>1. todo'[t] = {[call |-> commands[s].call, status |-> status] : s \in S}
  BY DEF TypeOK
<1>2. \A u \in IOThreads \ {t} : todo'[u] = todo[u]
  BY DEF TypeOK
<1>3. OneClaim'
  <2>1. ASSUME NEW e \in todo'[t], NEW f \in todo'[t]
        PROVE  e.status \in {"Success", "Timeout"} /\ (e.call = f.call => e = f)
    BY <1>1, <2>1
  <2> QED
    BY <1>2, <2>1 DEF HistInv, OneClaim
<1>4. PathInv'
  BY DEF HistInv, PathInv
<1>5. ASSUME NEW c \in Calls PROVE Spent(c)'
  <2>1. Spent(c)
    BY DEF HistInv
  <2>2. (Failed(c)' <=> Failed(c)) /\ Adds(c)' = Adds(c)
    BY DEF Failed, Reported, Adds
  <2>3. Cardinality(Holders(c)) \in Nat /\ Len(reports[c]) \in Nat /\ Adds(c) \in Nat
    BY <2>1, FS_CardinalityType DEF Spent, TypeOK, Adds, One
  <2>4. t \notin Holders(c)
    BY DEF Holders
  <2>5. CASE \E s \in S : commands[s].call = c
    <3>1. Entered(c)
      BY <2>5 DEF Entered
    <3>2. \A s \in Seqs : commands[s].call = c => s = seqOf[c]
      BY ConstantsAssumption DEF TableInv, InTable
    <3>3. ~Entered(c)'
      BY <2>5, <3>2, ConstantsAssumption DEF Entered
    <3>4. Holders(c)' = Holders(c) \cup {t}
      <4>1. PICK s \in S : commands[s].call = c
        BY <2>5
      <4>2. [call |-> c, status |-> status] \in todo'[t]
        BY <1>1, <4>1
      <4>3. t \in Holders(c)'
        BY <4>2 DEF Holders
      <4> QED
        BY <1>2, <4>3 DEF Holders
    <3>5. IsFiniteSet(Holders(c)') /\ Cardinality(Holders(c)') = Cardinality(Holders(c)) + 1
      BY <2>1, <2>4, <3>4, FS_AddElement DEF Spent
    <3>6. Outstanding(c)' = Outstanding(c)
      BY <2>3, <3>1, <3>3, <3>5 DEF Outstanding, One
    <3> QED
      <4>1. Len(reports[c])' + Outstanding(c)' <= Adds(c)' + One(Failed(c))'
        BY <2>1, <2>2, <3>6 DEF Spent, One
      <4> QED
        BY <2>1, <2>2, <3>5, <4>1 DEF Spent
  <2>6. CASE ~\E s \in S : commands[s].call = c
    <3>1. Holders(c)' = Holders(c)
      BY <1>1, <1>2, <2>4, <2>6 DEF Holders
    <3>2. Entered(c)' <=> Entered(c)
      BY <2>6, ConstantsAssumption DEF Entered
    <3>3. Outstanding(c)' = Outstanding(c)
      BY <3>1, <3>2 DEF Outstanding, One
    <3> QED
      <4>1. Len(reports[c])' + Outstanding(c)' <= Adds(c)' + One(Failed(c))'
        BY <2>1, <2>2, <3>3 DEF Spent, One
      <4> QED
        BY <2>1, <2>2, <3>1, <4>1 DEF Spent
  <2> QED
    BY <2>5, <2>6
<1> QED
  BY <1>3, <1>4, <1>5 DEF HistInv

(* A callback that is run is a claim less and a report more. *)
LEMMA CallbackSpends ==
  ASSUME IndInv, HistInv, SuccessMeansAnswered, NEW t \in IOThreads, RunCallback(t)
  PROVE  HistInv'
<1>1. PICK e \in todo[t] : /\ reports' = [reports EXCEPT ![e.call] = Append(@, e.status)]
                           /\ todo' = [todo EXCEPT ![t] = @ \ {e}]
  BY DEF RunCallback
<1>2. e.call \in Calls /\ e.status \in {"Success", "Timeout"}
  BY <1>1 DEF HistInv, OneClaim, IndInv, TypeOK
<1>3. \A u \in IOThreads : todo'[u] = IF u = t THEN todo[u] \ {e} ELSE todo[u]
  BY <1>1 DEF IndInv, TypeOK
<1>4. OneClaim' /\ PathInv'
  BY <1>3 DEF HistInv, OneClaim, PathInv, RunCallback, caller
<1>5. pc' = pc /\ wire' = wire /\ commands' = commands
  BY DEF RunCallback, caller
<1>6. ASSUME NEW c \in Calls PROVE Spent(c)'
  <2>1. Spent(c) /\ reports[c] \in Seq(Statuses)
    BY DEF HistInv, IndInv, TypeOK
  <2>2. Adds(c)' = Adds(c) /\ (Entered(c)' <=> Entered(c))
    BY <1>5 DEF Adds, Entered
  <2>3. Cardinality(Holders(c)) \in Nat /\ Len(reports[c]) \in Nat /\ Adds(c) \in Nat
    BY <2>1, FS_CardinalityType DEF Spent, Adds, One
  <2>4. CASE c = e.call
    <3>1. t \in Holders(c)
      BY <1>1, <2>4 DEF Holders
    <3>2. ASSUME NEW f \in todo'[t] PROVE f.call # c
      <4>1. f \in todo[t] /\ f # e
        BY <1>3
      <4>2. e.call = f.call => e = f
        BY <1>1, <4>1 DEF HistInv, OneClaim
      <4> QED
        BY <2>4, <4>1, <4>2
    <3>3. Holders(c)' = Holders(c) \ {t}
      BY <1>3, <2>4, <3>2 DEF Holders
    <3>4. IsFiniteSet(Holders(c)') /\ Cardinality(Holders(c)') = Cardinality(Holders(c)) - 1
      BY <2>1, <3>1, <3>3, FS_RemoveElement DEF Spent
    <3>5. reports'[c] = Append(reports[c], e.status)
      BY <1>1, <1>2, <2>4 DEF IndInv, TypeOK
    <3>6. Len(reports'[c]) = Len(reports[c]) + 1 /\ (Failed(c)' <=> Failed(c))
      <4>1. DOMAIN reports'[c] = DOMAIN reports[c] \cup {Len(reports[c]) + 1}
        BY <2>1, <3>5
      <4>2. /\ \A i \in DOMAIN reports[c] : reports'[c][i] = reports[c][i]
            /\ reports'[c][Len(reports[c]) + 1] = e.status
        BY <2>1, <3>5
      <4> QED
        BY <1>2, <2>1, <3>5, <4>1, <4>2 DEF Failed, Reported
    <3>7. Len(reports[c])' + Outstanding(c)' <= Adds(c)' + One(Failed(c))'
      BY <2>1, <2>2, <2>3, <3>4, <3>6 DEF Spent, Outstanding, One
    <3>8. Failed(c) => e.status = "Timeout"
      <4>1. ASSUME Failed(c), e.status = "Success" PROVE FALSE
        <5>1. e = [call |-> c, status |-> "Success"]
          BY <1>1, <2>4, <4>1 DEF IndInv, TypeOK
        <5>2. Claimed(c, "Success")
          BY <1>1, <5>1 DEF Claimed
        <5> QED
          BY <2>1, <4>1, <5>2 DEF SuccessMeansAnswered, Spent
      <4> QED
        BY <1>2, <4>1
    <3>9. Len(reports[c]) + 1 <= (IF Path[c] = "Hap" THEN 2 ELSE 1) + One(Failed(c))
      <4>1. Cardinality(Holders(c)) >= 1
        BY <2>3, <3>4, FS_CardinalityType
      <4>2. Adds(c) <= IF Path[c] = "Hap" THEN 2 ELSE 1
        BY ConstantsAssumption DEF Adds, One, Paths
      <4>3. Len(reports[c]) + Cardinality(Holders(c)) <= Adds(c) + One(Failed(c))
        BY <2>1, <2>3 DEF Spent, Outstanding, One
      <4> QED
        BY <2>3, <4>1, <4>2, <4>3 DEF One
    <3>10. reports'[c] \in HistoriesOf(Path[c])
      <4>1. Path[c] \in Paths
        BY ConstantsAssumption
      <4>2. Failed(c) <=> Holds(reports[c], "SendFailed")
        BY DEF Failed, Reported, Holds
      <4>3. Len(reports[c]) + 1
              <= (IF Path[c] = "Hap" THEN 2 ELSE 1) + One(Holds(reports[c], "SendFailed"))
        BY <3>9, <4>2 DEF One
      <4>4. reports[c] # << >> => reports[c] \in HistoriesOf(Path[c])
        BY <2>1 DEF Spent
      <4>5. Append(reports[c], e.status) \in HistoriesOf(Path[c])
        BY <1>2, <2>1, <3>8, <4>1, <4>2, <4>3, <4>4, HistoryOfClaim
      <4> QED
        BY <3>5, <4>5
    <3> QED
      BY <1>5, <2>1, <3>4, <3>6, <3>7, <3>10 DEF Spent
  <2>5. CASE c # e.call
    <3>1. Holders(c)' = Holders(c)
      BY <1>3, <2>5 DEF Holders
    <3>2. reports'[c] = reports[c]
      BY <1>1, <2>5 DEF IndInv, TypeOK
    <3>3. Failed(c)' <=> Failed(c)
      BY <3>2 DEF Failed, Reported
    <3>4. Len(reports[c])' + Outstanding(c)' <= Adds(c)' + One(Failed(c))'
      BY <2>1, <2>2, <3>1, <3>2, <3>3 DEF Spent, Outstanding, One
    <3> QED
      BY <1>5, <2>1, <3>1, <3>2, <3>3, <3>4 DEF Spent
  <2> QED
    BY <2>4, <2>5
<1> QED
  BY <1>4, <1>6 DEF HistInv

(* A send that fails is reported once, before anything of the call is on the wire. *)
LEMMA FailureSpends ==
  ASSUME IndInv, HistInv, SuccessMeansAnswered, NEW x \in Calls, SendFails(x)
  PROVE  HistInv' /\ Append(reports[x], "SendFailed") \in HistoriesOf(Path[x])
<1>0. pc \in [Calls -> {"idle", "lookup", "add", "send", "last", "done", "refused"}]
  BY DEF IndInv, TypeOK
<1>1. /\ pc[x] = "send"
      /\ reports' = [reports EXCEPT ![x] = Append(@, "SendFailed")]
      /\ pc' = [pc EXCEPT ![x] = AfterSend(x)]
      /\ wire' = wire /\ commands' = commands /\ todo' = todo
  BY DEF SendFails
<1>2. OneClaim' /\ PathInv'
  BY <1>0, <1>1 DEF HistInv, OneClaim, PathInv, AfterSend
<1>3. \A d \in wire : d.call # x
  BY <1>1 DEF IndInv, WireInv
<1>4. Spent(x) /\ reports[x] \in Seq(Statuses) /\ ~Failed(x)
  BY <1>1 DEF HistInv, IndInv, TypeOK, Spent
<1>5. ~Reported(x, "Success")
  BY <1>3 DEF SuccessMeansAnswered
<1>6. Cardinality(Holders(x)) \in Nat /\ Len(reports[x]) \in Nat
  BY <1>4, FS_CardinalityType DEF Spent
<1>7. reports'[x] = Append(reports[x], "SendFailed")
  BY <1>1 DEF IndInv, TypeOK
<1>8. Append(reports[x], "SendFailed") \in HistoriesOf(Path[x])
  <2>1. Path[x] \in Paths
    BY ConstantsAssumption
  <2>2. Adds(x) = IF Path[x] = "Mid360" THEN 0 ELSE 1
    BY <1>1 DEF Adds, One
  <2>3. Len(reports[x]) <= IF Path[x] = "Mid360" THEN 0 ELSE 1
    BY <1>4, <1>6, <2>2 DEF Spent, Outstanding, One
  <2>4. ~Holds(reports[x], "SendFailed") /\ ~Holds(reports[x], "Success")
    BY <1>4, <1>5 DEF Failed, Reported, Holds
  <2>5. reports[x] # << >> => reports[x] \in HistoriesOf(Path[x])
    BY <1>4 DEF Spent
  <2> QED
    BY <1>4, <2>1, <2>3, <2>4, <2>5, HistoryOfFailure
<1>9. ASSUME NEW c \in Calls PROVE Spent(c)'
  <2>1. Spent(c)
    BY DEF HistInv
  <2>2. Holders(c)' = Holders(c) /\ (Entered(c)' <=> Entered(c))
    BY <1>1 DEF Holders, Entered
  <2>3. CASE c = x
    <3>1. /\ Len(reports'[x]) = Len(reports[x]) + 1
          /\ reports'[x][Len(reports[x]) + 1] = "SendFailed"
          /\ Len(reports[x]) + 1 \in DOMAIN reports'[x]
      BY <1>4, <1>7
    <3>2. Failed(x)'
      BY <3>1 DEF Failed, Reported
    <3>3. pc'[x] \in {"last", "done"} /\ Adds(x) <= Adds(x)'
      BY <1>0, <1>1 DEF AfterSend, Adds, One
    <3>4. Adds(x) \in Nat /\ Adds(x)' \in Nat
      BY DEF Adds, One
    <3>5. Len(reports[x])' + Outstanding(x)' <= Adds(x)' + One(Failed(x))'
      <4>1. Outstanding(x)' = Outstanding(x) /\ Outstanding(x) \in Nat
        BY <1>6, <2>2, <2>3 DEF Outstanding, One
      <4>2. One(Failed(x))' = 1 /\ One(Failed(x)) = 0
        BY <1>4, <3>2 DEF One
      <4>3. Len(reports[x]) + Outstanding(x) <= Adds(x) + One(Failed(x))
        BY <1>4 DEF Spent
      <4> QED
        BY <1>6, <3>1, <3>3, <3>4, <4>1, <4>2, <4>3
    <3> QED
      BY <1>1, <1>3, <1>4, <1>7, <1>8, <2>2, <2>3, <3>2, <3>3, <3>5 DEF Spent
  <2>4. CASE c # x
    <3>1. reports'[c] = reports[c] /\ pc'[c] = pc[c]
      BY <1>0, <1>1, <2>4 DEF IndInv, TypeOK
    <3>2. (Failed(c)' <=> Failed(c)) /\ Adds(c)' = Adds(c)
      BY <3>1 DEF Failed, Reported, Adds
    <3>3. Len(reports[c])' + Outstanding(c)' <= Adds(c)' + One(Failed(c))'
      BY <2>1, <2>2, <3>1, <3>2 DEF Spent, Outstanding, One
    <3> QED
      BY <1>1, <2>1, <2>2, <3>1, <3>2, <3>3 DEF Spent
  <2> QED
    BY <2>3, <2>4
<1> QED
  BY <1>2, <1>8, <1>9 DEF HistInv

(* HistInv is inductive: an add is spent on one claim, and a claim on one report. *)
LEMMA HistStep == IndInv /\ HistInv /\ SuccessMeansAnswered /\ [Next]_vars => HistInv'
<1> SUFFICES ASSUME IndInv, HistInv, SuccessMeansAnswered, [Next]_vars PROVE HistInv'
  OBVIOUS
<1>0. TypeOK /\ TableInv /\ pc \in [Calls -> {"idle", "lookup", "add", "send", "last", "done", "refused"}]
  BY DEF IndInv, TypeOK
<1>1. ASSUME todo' = todo, PathInv', reports' = reports,
             \A c \in Calls : /\ Failed(c) => pc'[c] \in {"last", "done"} /\ \A d \in wire' : d.call # c
                             /\ Adds(c) + One(Entered(c)') <= Adds(c)' + One(Entered(c))
      PROVE  HistInv'
  <2>1. OneClaim'
    BY <1>1 DEF HistInv, OneClaim
  <2>2. ASSUME NEW c \in Calls PROVE Spent(c)'
    <3>1. Spent(c)
      BY DEF HistInv
    <3> QED
      BY <1>0, <1>1, <3>1, SpentKept
  <2> QED
    BY <1>1, <2>1, <2>2 DEF HistInv
<1>a. \A c \in Calls : Failed(c) => pc[c] \in {"last", "done"} /\ \A d \in wire : d.call # c
  BY DEF HistInv, Spent
<1>2. ASSUME NEW x \in Calls, GetSeq(x) \/ Lookup(x) \/ Send(x) PROVE HistInv'
  <2>1. todo' = todo /\ reports' = reports /\ commands' = commands
    BY <1>2 DEF GetSeq, Lookup, Send
  <2>2. PathInv'
    BY <1>0, <1>2 DEF HistInv, PathInv, GetSeq, Lookup, Send, FirstStep, AfterSend
  <2>3. ASSUME NEW c \in Calls
        PROVE  /\ Failed(c) => pc'[c] \in {"last", "done"} /\ \A d \in wire' : d.call # c
               /\ Adds(c) + One(Entered(c)') <= Adds(c)' + One(Entered(c))
    <3>1. Failed(c) => pc'[c] \in {"last", "done"} /\ \A d \in wire' : d.call # c
      BY <1>0, <1>2, <1>a DEF GetSeq, Lookup, Send
    <3>2. Entered(c)' <=> Entered(c)
      BY <2>1 DEF Entered
    <3>3. Adds(c) <= Adds(c)'
      BY <1>0, <1>2 DEF GetSeq, Lookup, Send, FirstStep, AfterSend, Adds, One
    <3> QED
      BY <3>1, <3>2, <3>3 DEF Adds, One
  <2> QED
    BY <1>1, <2>1, <2>2, <2>3
<1>3. ASSUME NEW x \in Calls, AddCommand(x) PROVE HistInv'
  <2>1. todo' = todo /\ reports' = reports /\ wire' = wire
    BY <1>3 DEF AddCommand
  <2>2. PathInv'
    BY <1>0, <1>3 DEF HistInv, PathInv, AddCommand
  <2>3. ASSUME NEW c \in Calls
        PROVE  /\ Failed(c) => pc'[c] \in {"last", "done"} /\ \A d \in wire' : d.call # c
               /\ Adds(c) + One(Entered(c)') <= Adds(c)' + One(Entered(c))
    <3>1. Failed(c) => pc'[c] \in {"last", "done"} /\ \A d \in wire' : d.call # c
      BY <1>0, <1>3, <1>a, <2>1 DEF AddCommand
    <3>2. CASE c = x
      <4>1. Adds(c)' = Adds(c) + 1
        BY <1>0, <1>3, <3>2, ConstantsAssumption DEF AddCommand, HistInv, PathInv, Adds, One, Paths
      <4> QED
        BY <3>1, <4>1 DEF Adds, One
    <3>3. CASE c # x
      <4>1. Adds(c)' = Adds(c)
        BY <1>0, <1>3, <3>3 DEF AddCommand, Adds
      <4>2. \A s \in Seqs : commands'[s].call \in {x, commands[s].call}
        BY <1>0, <1>3 DEF AddCommand, Entry, TypeOK
      <4>3. Entered(c)' => Entered(c)
        BY <3>3, <4>2 DEF Entered
      <4> QED
        BY <3>1, <4>1, <4>3 DEF Adds, One
    <3> QED
      BY <3>2, <3>3
  <2> QED
    BY <1>1, <2>1, <2>2, <2>3
<1>4. ASSUME NEW x \in Calls, SendFails(x) PROVE HistInv'
  BY <1>4, FailureSpends
<1>5. ASSUME NEW t \in IOThreads, RunCallback(t) PROVE HistInv'
  BY <1>5, CallbackSpends
<1>6. ASSUME NEW t \in IOThreads, CommandsHandle(t) PROVE HistInv'
  <2> DEFINE S == {s \in Seqs : Overdue(s)}
  <2>1. /\ todo[t] = {} /\ commands' = Without(S)
        /\ todo' = [todo EXCEPT ![t] = {[call |-> commands[s].call, status |-> "Timeout"] : s \in S}]
        /\ pc' = pc /\ seqOf' = seqOf /\ wire' = wire /\ reports' = reports
    BY <1>6 DEF CommandsHandle, caller
  <2>2. \A s \in S : InTable(s)
    BY DEF Overdue
  <2>3. \A s \in Seqs : commands'[s].call = IF s \in S THEN NoCall ELSE commands[s].call
    BY <2>1 DEF Without, NoEntry
  <2> HIDE DEF S
  <2>4. S \in SUBSET Seqs
    BY DEF S
  <2> QED
    BY <1>0, <2>1, <2>2, <2>3, <2>4, ClaimKept
<1>7. ASSUME NEW t \in IOThreads, NEW d \in wire, Handler(t, d) PROVE HistInv'
  <2> DEFINE S == {s \in {d.seq} : InTable(s)}
  <2>0. d.seq \in Seqs
    BY <1>0 DEF TypeOK
  <2>1. /\ todo[t] = {} /\ commands' = Without({d.seq})
        /\ todo' = [todo EXCEPT ![t] = {[call |-> commands[s].call, status |-> "Success"] : s \in S}]
        /\ pc' = pc /\ seqOf' = seqOf /\ wire' = wire /\ reports' = reports
    BY <1>7 DEF Handler, caller
  <2>2. \A s \in S : InTable(s)
    OBVIOUS
  <2>3. \A s \in Seqs : commands'[s].call = IF s \in S THEN NoCall ELSE commands[s].call
    BY <2>0, <2>1 DEF Without, NoEntry, InTable
  <2>4. S \in SUBSET Seqs
    BY <2>0
  <2> HIDE DEF S
  <2> QED
    BY <1>0, <2>1, <2>2, <2>3, <2>4, ClaimKept
<1>8. ASSUME todo' = todo, pc' = pc, reports' = reports,
             \A d \in wire' : \E e \in wire : d.call = e.call,
             \A s \in Seqs : commands'[s].call = commands[s].call
      PROVE  HistInv'
  <2>1. PathInv'
    BY <1>8 DEF HistInv, PathInv
  <2>2. ASSUME NEW c \in Calls
        PROVE  /\ Failed(c) => pc'[c] \in {"last", "done"} /\ \A d \in wire' : d.call # c
               /\ Adds(c) + One(Entered(c)') <= Adds(c)' + One(Entered(c))
    <3>1. Failed(c) => pc'[c] \in {"last", "done"} /\ \A d \in wire' : d.call # c
      BY <1>8, <1>a
    <3>2. (Entered(c)' <=> Entered(c)) /\ Adds(c)' = Adds(c)
      BY <1>8 DEF Entered, Adds
    <3> QED
      BY <3>1, <3>2 DEF Adds, One
  <2> QED
    BY <1>1, <1>8, <2>1, <2>2
<1>9. CASE Tick
  <2>1. ASSUME NEW s \in Seqs PROVE commands'[s].call = commands[s].call
    <3>1. commands[s] \in [call : Calls \cup {NoCall}, left : 0..TimeOut]
      BY <1>0 DEF TypeOK
    <3> QED
      BY <1>9, <3>1 DEF Tick
  <2> QED
    BY <1>8, <1>9, <2>1 DEF Tick, caller
<1>10. ASSUME NEW d \in wire, LidarAcks(d) PROVE HistInv'
  <2>1. [d EXCEPT !.kind = "ack"].call = d.call
    BY <1>0 DEF TypeOK
  <2> QED
    BY <1>8, <1>10, <2>1 DEF LidarAcks, caller
<1>11. CASE UNCHANGED <<todo, pc, reports, wire, commands>>
  BY <1>8, <1>11
<1> QED
  BY <1>2, <1>3, <1>4, <1>5, <1>6, <1>7, <1>9, <1>10, <1>11 DEF Next, Caller, Detect,
     SdkUninit, SdkInit, caller, vars

(* What CommandService sees of the table. *)
Issued == {c \in Calls : pc[c] # "idle"}
AnsweredCalls == {d.call : d \in {d \in wire : d.kind = "ack"}}

(* A report of the table is one that CommandService allows. *)
LEMMA ServiceReport ==
  ASSUME IndInv, NEW c \in Calls, NEW status \in Statuses, pc[c] # "idle",
         status = "Success" => Answered(c),
         reports' = [reports EXCEPT ![c] = Append(@, status)],
         Append(reports[c], status) \in HistoriesOf(Path[c]),
         Issued' = Issued, AnsweredCalls' = AnsweredCalls
  PROVE  Service!Next
<1>1. c \in Issued /\ (status = "Success" => c \in AnsweredCalls)
  BY DEF Issued, AnsweredCalls, Answered
<1>2. Append(reports[c], status) \in [x \in Calls |-> HistoriesOf(Path[x])][c]
  OBVIOUS
<1>3. Service!Report(c, status)
  BY <1>1, <1>2 DEF Service!Report, Issued, AnsweredCalls
<1> QED
  BY <1>3 DEF Service!Next, Statuses

(* Every step of the table is one of CommandService, or changes nothing that it sees: *)
(* a call begins when it takes its number, and is answered when a lidar acks it.      *)
LEMMA ServiceStep ==
  IndInv /\ HistInv /\ SuccessMeansAnswered /\ [Next]_vars => [Service!Next]_(Service!vars)
<1> SUFFICES ASSUME IndInv, HistInv, SuccessMeansAnswered, [Next]_vars
             PROVE  [Service!Next]_(Service!vars)
  OBVIOUS
<1>0. pc \in [Calls -> {"idle", "lookup", "add", "send", "last", "done", "refused"}]
  BY DEF IndInv, TypeOK
<1>1. ASSUME Issued' = Issued, AnsweredCalls' = AnsweredCalls, reports' = reports
      PROVE  [Service!Next]_(Service!vars)
  BY <1>1 DEF Service!vars, Issued, AnsweredCalls
<1>2. ASSUME NEW c \in Calls, GetSeq(c) PROVE [Service!Next]_(Service!vars)
  <2>1. c \notin Issued /\ Issued' = Issued \cup {c}
    BY <1>0, <1>2 DEF GetSeq, Issued
  <2>2. AnsweredCalls' = AnsweredCalls /\ reports' = reports
    BY <1>2 DEF GetSeq, AnsweredCalls
  <2>3. Service!Issue(c)
    BY <2>1, <2>2 DEF Service!Issue, Issued, AnsweredCalls
  <2> QED
    BY <2>3 DEF Service!Next
<1>3. ASSUME NEW c \in Calls, Lookup(c) \/ AddCommand(c) PROVE [Service!Next]_(Service!vars)
  <2>1. Issued' = Issued
    BY <1>0, <1>3 DEF Lookup, AddCommand, FirstStep, Issued
  <2>2. AnsweredCalls' = AnsweredCalls /\ reports' = reports
    BY <1>3 DEF Lookup, AddCommand, AnsweredCalls
  <2> QED
    BY <1>1, <2>1, <2>2
<1>4. ASSUME NEW c \in Calls, Send(c) PROVE [Service!Next]_(Service!vars)
  <2>1. Issued' = Issued
    BY <1>0, <1>4 DEF Send, AfterSend, Issued
  <2>2. reports' = reports /\ wire' = wire \cup {[kind |-> "cmd", call |-> c, seq |-> seqOf[c]]}
    BY <1>4 DEF Send
  <2>3. AnsweredCalls' = AnsweredCalls
    BY <2>2 DEF AnsweredCalls
  <2> QED
    BY <1>1, <2>1, <2>2, <2>3
<1>5. ASSUME NEW c \in Calls, SendFails(c) PROVE [Service!Next]_(Service!vars)
  <2>1. Issued' = Issued /\ pc[c] # "idle"
    BY <1>0, <1>5 DEF SendFails, AfterSend, Issued
  <2>2. AnsweredCalls' = AnsweredCalls /\ reports' = [reports EXCEPT ![c] = Append(@, "SendFailed")]
    BY <1>5 DEF SendFails, AnsweredCalls
  <2>3. Append(reports[c], "SendFailed") \in HistoriesOf(Path[c])
    BY <1>5, FailureSpends
  <2> QED
    BY <2>1, <2>2, <2>3, ServiceReport DEF Statuses
<1>6. ASSUME NEW t \in IOThreads, RunCallback(t) PROVE [Service!Next]_(Service!vars)
  <2>1. PICK e \in todo[t] : reports' = [reports EXCEPT ![e.call] = Append(@, e.status)]
    BY <1>6 DEF RunCallback
  <2>2. e.call \in Calls /\ e.status \in {"Success", "Timeout"}
    BY <2>1 DEF HistInv, OneClaim, IndInv, TypeOK
  <2>3. Issued' = Issued /\ AnsweredCalls' = AnsweredCalls
    BY <1>6 DEF RunCallback, caller, Issued, AnsweredCalls
  <2>4. Spent(e.call) /\ reports[e.call] \in Seq(Statuses)
    BY <2>2 DEF HistInv, IndInv, TypeOK
  <2>5. pc[e.call] # "idle"
    <3>1. t \in Holders(e.call)
      BY <2>1 DEF Holders
    <3>2. Cardinality(Holders(e.call)) \in Nat /\ Cardinality(Holders(e.call)) # 0
      BY <2>4, <3>1, FS_EmptySet, FS_CardinalityType DEF Spent
    <3>3. Adds(e.call) + One(Failed(e.call)) # 0
      BY <2>4, <3>2 DEF Spent, Outstanding, One, Adds
    <3> QED
      BY <2>4, <3>3 DEF Spent, Adds, One
  <2>6. e.status = "Success" => Answered(e.call)
    <3>1. ASSUME e.status = "Success" PROVE Answered(e.call)
      <4>1. e = [call |-> e.call, status |-> "Success"]
        BY <3>1 DEF IndInv, TypeOK
      <4>2. Claimed(e.call, "Success")
        BY <2>1, <4>1 DEF Claimed
      <4> QED
        BY <2>2, <4>2 DEF SuccessMeansAnswered, Answered
    <3> QED
      BY <3>1
  <2>7. Append(reports[e.call], e.status) \in HistoriesOf(Path[e.call])
    <3>1. Spent(e.call)'
      BY <1>6, <2>2, CallbackSpends DEF HistInv
    <3>2. reports'[e.call] = Append(reports[e.call], e.status)
      BY <2>1, <2>2 DEF IndInv, TypeOK
    <3>3. Append(reports[e.call], e.status) # << >>
      BY <2>4
    <3> QED
      BY <3>1, <3>2, <3>3 DEF Spent
  <2>8. e.status \in Statuses
    BY <2>2 DEF Statuses
  <2> QED
    BY <2>1, <2>2, <2>3, <2>5, <2>6, <2>7, <2>8, ServiceReport
<1>7. ASSUME NEW d \in wire, LidarAcks(d) PROVE [Service!Next]_(Service!vars)
  <2>1. d \in [kind : {"cmd", "ack"}, call : Calls, seq : Seqs] /\ pc[d.call] # "idle"
    BY DEF IndInv, TypeOK, WireInv
  <2>2. wire' = wire \cup {[d EXCEPT !.kind = "ack"]} /\ reports' = reports /\ pc' = pc
    BY <1>7 DEF LidarAcks, caller
  <2>3. AnsweredCalls' = AnsweredCalls \cup {d.call} /\ Issued' = Issued
    <3> DEFINE a == [d EXCEPT !.kind = "ack"]
    <3>1. a.kind = "ack" /\ a.call = d.call
      BY <2>1
    <3> HIDE DEF a
    <3>2. AnsweredCalls' = AnsweredCalls \cup {a.call}
      BY <2>2, <3>1 DEF AnsweredCalls, a
    <3> QED
      BY <2>2, <3>1, <3>2 DEF Issued
  <2>4. CASE d.call \in AnsweredCalls
    <3>1. AnsweredCalls' = AnsweredCalls
      BY <2>3, <2>4
    <3> QED
      BY <1>1, <2>2, <2>3, <3>1
  <2>5. CASE d.call \notin AnsweredCalls
    <3>1. d.call \in Issued
      BY <2>1 DEF Issued
    <3>2. Service!Answer(d.call)
      BY <2>2, <2>3, <2>5, <3>1 DEF Service!Answer, Issued, AnsweredCalls
    <3> QED
      BY <2>1, <3>2 DEF Service!Next
  <2> QED
    BY <2>4, <2>5
<1>8. CASE UNCHANGED <<pc, wire, reports>>
  <2>1. Issued' = Issued /\ AnsweredCalls' = AnsweredCalls
    BY <1>8 DEF Issued, AnsweredCalls
  <2> QED
    BY <1>1, <1>8, <2>1
<1> QED
  BY <1>2, <1>3, <1>4, <1>5, <1>6, <1>7, <1>8 DEF Next, Caller, CommandsHandle, Handler, Detect,
     Tick, SdkUninit, SdkInit, caller, vars

-----------------------------------------------------------------------------
(* The theorems. *)

(* Every variable keeps its type, however many calls are made. *)
THEOREM TypeCorrect == Spec => []TypeOK
<1>1. Init => TypeOK /\ Started
  BY TypeInit
<1>2. TypeOK /\ Started /\ [Next]_vars => (TypeOK /\ Started)'
  BY TypeStep
<1> QED
  BY <1>1, <1>2, PTL DEF Spec

(* GetSeq never comes round: numbers, entries and datagrams keep to their call. *)
THEOREM UniqueNumbers == ASSUME FewCalls PROVE Spec => []IndInv
<1>1. Init => IndInv
  BY IndInit
<1>2. IndInv /\ [Next]_vars => IndInv'
  BY IndStep
<1> QED
  BY <1>1, <1>2, PTL DEF Spec

(* Handler reports Success only to the caller whose command was answered. *)
THEOREM AckMatches == ASSUME FewCalls PROVE Spec => []SuccessMeansAnswered
<1>1. Init => SuccessMeansAnswered
  BY DEF Init, SuccessMeansAnswered, Claimed, Reported
<1>2. IndInv /\ SuccessMeansAnswered /\ [Next]_vars => SuccessMeansAnswered'
  BY AnsweredStep
<1> QED
  BY <1>1, <1>2, UniqueNumbers, PTL DEF Spec

(* In every state of an execution an added command is in the table, claimed or reported. *)
LEMMA SettledAlways == ASSUME FewCalls PROVE Spec => []SettledInv
<1>1. Init => SettledInv
  BY DEF Init, SettledInv, Added
<1>2. IndInv /\ SettledInv /\ [Next]_vars => SettledInv'
  BY SettledStep
<1> QED
  BY <1>1, <1>2, UniqueNumbers, PTL DEF Spec

(* A call that returned Success keeps its callback in commands_ or in a claim. *)
THEOREM CallbackKept == ASSUME FewCalls PROVE Spec => []NoCallbackLost
<1>1. IndInv /\ SettledInv => NoCallbackLost
  <2> SUFFICES ASSUME IndInv, SettledInv, NEW c \in Calls, pc[c] = "done", reports[c] = << >>
               PROVE  Entered(c) \/ \E status \in Statuses : Claimed(c, status)
    BY DEF NoCallbackLost
  <2>1. Settled(c)
    BY DEF SettledInv, Added
  <2>2. \A status : ~Reported(c, status)
    BY DEF Reported
  <2> QED
    BY <2>1, <2>2 DEF Settled, Got
<1> QED
  BY <1>1, UniqueNumbers, SettledAlways, PTL

(* On the paths that add first, an ack heard before a time-out becomes Success. *)
THEOREM AckClaimed == ASSUME FewCalls PROVE Spec => []HeardAckIsClaimed
<1>1. Init => HeardAckIsClaimed
  BY DEF Init, HeardAckIsClaimed
<1>2. IndInv /\ SettledInv /\ HeardAckIsClaimed /\ [Next]_vars => HeardAckIsClaimed'
  BY HeardStep
<1> QED
  BY <1>1, <1>2, UniqueNumbers, SettledAlways, PTL DEF Spec

(* SendCommand(command, port), which adds first and once, times out only commands *)
(* whose ack was never passed to Handler, whatever path the other calls take.      *)
THEOREM PortTimeouts == ASSUME FewCalls PROVE Spec => PortTimeoutMeansUnanswered
<1>1. Init => HeardErased /\ NoReadd
  BY DEF Init, HeardErased, NoReadd
<1>2. IndInv /\ HeardErased /\ NoReadd /\ [Next]_vars => HeardErased' /\ NoReadd'
  BY ErasedStep
<1>3. IndInv /\ HeardErased /\ [Next]_vars =>
        [\A c \in Calls : Path[c] = "Port" /\ TimesOut(c) => c \notin heard]_vars
  BY TimeoutStep
<1> QED
  BY <1>1, <1>2, <1>3, UniqueNumbers, PTL DEF Spec, PortTimeoutMeansUnanswered

(* The table implements CommandService: a callback runs at most as often, with such *)
(* statuses and in such an order as the path of its call allows.                    *)
THEOREM TableIsService == ASSUME FewCalls PROVE Spec => ServiceSpec
<1>1. Init => HistInv
  BY HistInit
<1>2. IndInv /\ HistInv /\ SuccessMeansAnswered /\ [Next]_vars => HistInv'
  BY HistStep
<1>3. Init => Service!Init
  BY DEF Init, Service!Init
<1>4. IndInv /\ HistInv /\ SuccessMeansAnswered /\ [Next]_vars => [Service!Next]_(Service!vars)
  BY ServiceStep
<1> QED
  BY <1>1, <1>2, <1>3, <1>4, UniqueNumbers, AckMatches, PTL DEF Spec, ServiceSpec, Service!Spec
=============================================================================
