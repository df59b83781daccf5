-------------------------- MODULE SdkServicesProofs --------------------------
(***************************************************************************)
(* Proofs about the services of the SDK that MCSdkServices checks on small *)
(* instances: the firmware upgrade, for any number of blocks, any limits   *)
(* and any number of callbacks that run twice; the sessions, for any       *)
(* number of them and of descriptors; the log files, for any number of     *)
(* them, of packets, of faults and any size of the cache.                  *)
(***************************************************************************)
EXTENDS FirmwareUpgrade, SdkLifecycle, LogFiles, Integers, SequenceTheorems, FiniteSetTheorems, TLAPS

-----------------------------------------------------------------------------
(* Counting callbacks. *)

(* The callbacks of the commands in C: one pair for each that is still to run. *)
TokensOf(C, f) == UNION {{c} \X (1..f[c]) : c \in C}

(* A pair is there as long as its number does not exceed what is still to run. *)
LEMMA TokenIn ==
  ASSUME NEW C, NEW f, NEW p
  PROVE  p \in TokensOf(C, f) <=> \E c \in C : \E i \in 1..f[c] : p = <<c, i>>
BY DEF TokensOf

(* One callback more of one command is one pair more. *)
LEMMA TokenMore ==
  ASSUME NEW C, NEW c \in C, NEW f, NEW g, f[c] \in Nat, g[c] = f[c] + 1,
         \A x \in C : x # c => g[x] = f[x],
         IsFiniteSet(TokensOf(C, f))
  PROVE  /\ IsFiniteSet(TokensOf(C, g))
         /\ Cardinality(TokensOf(C, g)) = Cardinality(TokensOf(C, f)) + 1
<1> DEFINE p == <<c, f[c] + 1>>
<1>1. p \notin TokensOf(C, f)
  <2> SUFFICES ASSUME NEW x \in C, \E i \in 1..f[x] : p = <<x, i>> PROVE FALSE
    BY TokenIn
  <2>0. PICK i \in 1..f[x] : p = <<x, i>>
    OBVIOUS
  <2>1. x = c /\ i = f[c] + 1
    BY <2>0
  <2> QED
    BY <2>1
<1>2. TokensOf(C, g) = TokensOf(C, f) \cup {p}
  <2>1. ASSUME NEW q \in TokensOf(C, g) PROVE q \in TokensOf(C, f) \cup {p}
    <3>0. PICK x \in C : \E i \in 1..g[x] : q = <<x, i>>
      BY TokenIn
    <3>1. PICK i \in 1..g[x] : q = <<x, i>>
      BY <3>0
    <3>2. CASE x = c
      <4>1. i \in 1..f[c] \/ i = f[c] + 1
        BY <3>2
      <4> QED
        BY <3>1, <3>2, <4>1, TokenIn
    <3>3. CASE x # c
      BY <3>1, <3>3, TokenIn
    <3> QED
      BY <3>2, <3>3
  <2>2. ASSUME NEW q \in TokensOf(C, f) PROVE q \in TokensOf(C, g)
    <3>0. PICK x \in C : \E i \in 1..f[x] : q = <<x, i>>
      BY TokenIn
    <3>1. PICK i \in 1..f[x] : q = <<x, i>>
      BY <3>0
    <3>2. i \in 1..g[x]
      BY <3>1
    <3> QED
      BY <3>1, <3>2, TokenIn
  <2>3. p \in TokensOf(C, g)
    <3>1. f[c] + 1 \in 1..g[c]
      OBVIOUS
    <3> QED
      BY <3>1, TokenIn
  <2> QED
    BY <2>1, <2>2, <2>3
<1> HIDE DEF p
<1> QED
  BY <1>1, <1>2, FS_AddElement

(* One callback less of one command is one pair less. *)
LEMMA TokenLess ==
  ASSUME NEW C, NEW c \in C, NEW f, NEW g, g[c] \in Nat, f[c] = g[c] + 1,
         \A x \in C : x # c => g[x] = f[x],
         IsFiniteSet(TokensOf(C, f))
  PROVE  /\ IsFiniteSet(TokensOf(C, g))
         /\ Cardinality(TokensOf(C, f)) = Cardinality(TokensOf(C, g)) + 1
<1>1. TokensOf(C, g) \subseteq TokensOf(C, f)
  <2> SUFFICES ASSUME NEW q \in TokensOf(C, g) PROVE q \in TokensOf(C, f)
    OBVIOUS
  <2>0. PICK x \in C : \E i \in 1..g[x] : q = <<x, i>>
    BY TokenIn
  <2>1. PICK i \in 1..g[x] : q = <<x, i>>
    BY <2>0
  <2>2. i \in 1..f[x]
    BY <2>1
  <2> QED
    BY <2>1, <2>2, TokenIn
<1>2. IsFiniteSet(TokensOf(C, g))
  BY <1>1, FS_Subset
<1> QED
  BY <1>2, TokenMore

(* A command outside C changes nothing. *)
LEMMA TokenSame ==
  ASSUME NEW C, NEW f, NEW g, \A x \in C : g[x] = f[x]
  PROVE  TokensOf(C, g) = TokensOf(C, f)
BY DEF TokensOf

-----------------------------------------------------------------------------
(* FirmwareUpgrade. *)

USE UpgradeAssumption

Events == {"Request", "Xfer", "CompleteXfer", "Progress", "Complete", "Reinit", "Err"}
Resting == {"Idle", "Err"}

(* upgrade_event_table: an event leads to the state of its name, a reinit to the start. *)
LEMMA TableRows ==
  \A r \in Table : /\ r = <<r[1], r[2], r[3]>>
                   /\ r[1] \in States \ {"Err"} /\ r[2] \in Events \ {"Err"}
                   /\ r[3] = IF r[2] = "Reinit" THEN "Idle" ELSE r[2]
BY DEF Table, States, Events

(* FsmEventHandler takes a row of the table, and sends what its handler sends, or finds *)
(* none and sends nothing.                                                              *)
LEMMA FireRow ==
  ASSUME NEW event, NEW off, NEW rest, Fire(event, off, rest)
  PROVE  \/ /\ \E n : <<fsm, event, n>> \in Table
            /\ fsm' = (IF event = "Reinit" THEN "Idle" ELSE event) /\ event \in Events \ {"Err"}
            /\ offset' = (IF event = "Request" THEN 0 ELSE off)
            /\ open' = [c \in Commands |-> rest[c] + IF c \in Sends(event, offset') THEN 1 ELSE 0]
         \/ /\ \A n : <<fsm, event, n>> \notin Table
            /\ fsm' = (IF event = "Err" THEN "Err" ELSE fsm)
            /\ offset' = off /\ open' = rest
<1> DEFINE rows == {r \in Table : r[1] = fsm /\ r[2] = event}
           row == CHOOSE r \in rows : TRUE
<1>1. /\ fsm' = (IF event = "Err" THEN "Err" ELSE IF rows = {} THEN fsm ELSE row[3])
      /\ offset' = (IF event = "Request" /\ rows # {} THEN 0 ELSE off)
      /\ open' = IF rows = {} THEN rest
                 ELSE [c \in Commands |-> rest[c] + IF c \in Sends(event, offset') THEN 1 ELSE 0]
  BY DEF Fire
<1>2. CASE rows = {}
  <2>1. \A n : <<fsm, event, n>> \notin Table
    <3> SUFFICES ASSUME NEW n, <<fsm, event, n>> \in Table PROVE FALSE
      OBVIOUS
    <3>1. <<fsm, event, n>> \in rows
      OBVIOUS
    <3> QED
      BY <3>1, <1>2
  <2> QED
    BY <1>1, <1>2, <2>1
<1>3. CASE rows # {}
  <2>1. row \in rows
    BY <1>3
  <2> HIDE DEF row
  <2>2. row \in Table /\ row[1] = fsm /\ row[2] = event
    BY <2>1
  <2>3. row = <<fsm, event, row[3]>> /\ event \in Events \ {"Err"}
        /\ row[3] = IF event = "Reinit" THEN "Idle" ELSE event
    BY <2>2, TableRows
  <2>4. event # "Err"
    BY <2>3
  <2> QED
    BY <1>1, <1>3, <2>2, <2>3, <2>4
<1> QED
  BY <1>2, <1>3

(* A handler sends one command at most, and a block only if one is left. *)
LEMMA SendsOne ==
  ASSUME NEW event \in Events \ {"Err"}, NEW off \in Nat
  PROVE  \/ Sends(event, off) = {}
         \/ /\ event # "Xfer" /\ Sends(event, off) = {<<event, 0>>}
            /\ <<event, 0>> \in Commands \ Xfers /\ event # "Reinit"
         \/ event = "Xfer" /\ off < Blocks /\ Sends(event, off) = {<<"Xfer", off>>}
            /\ <<"Xfer", off>> \in Xfers
<1>1. CASE event = "Xfer"
  <2>1. off < Blocks => off \in 0..Blocks - 1
    OBVIOUS
  <2> QED
    BY <1>1, <2>1 DEF Sends, Xfers
<1>2. CASE event = "Reinit"
  BY <1>2 DEF Sends
<1>3. CASE event \in {"Request", "CompleteXfer", "Progress", "Complete"}
  <2>1. Sends(event, off) = {<<event, 0>>}
    BY <1>3 DEF Sends
  <2>2. <<event, 0>> \in Commands
    BY <1>3 DEF Commands
  <2>3. <<event, 0>> \notin Xfers
    BY <1>3 DEF Xfers
  <2> QED
    BY <1>3, <2>1, <2>2, <2>3
<1> QED
  BY <1>1, <1>2, <1>3 DEF Events

(* Blocks are commands; the pairs of the blocks are among those of the commands. *)
LEMMA XferTokens ==
  ASSUME NEW f, IsFiniteSet(TokensOf(Commands, f))
  PROVE  /\ IsFiniteSet(TokensOf(Xfers, f))
         /\ Cardinality(TokensOf(Xfers, f)) \in Nat
         /\ Cardinality(TokensOf(Commands, f)) \in Nat
         /\ Cardinality(TokensOf(Xfers, f)) <= Cardinality(TokensOf(Commands, f))
<1>1. TokensOf(Xfers, f) \subseteq TokensOf(Commands, f)
  BY DEF TokensOf, Commands
<1> QED
  BY <1>1, FS_Subset, FS_CardinalityType

(* The callbacks that are still to run, with d of them doubled: as many as were doubled, *)
(* and one while the machine works. The offset moves with the answers for blocks and is  *)
(* past the end only by the doubled ones.                                                *)
Counted(d, extra, off, f) ==
  /\ f \in [Commands -> Nat]
  /\ IsFiniteSet(TokensOf(Commands, f))
  /\ Cardinality(TokensOf(Commands, f)) <= d + extra
  /\ off \in Nat
  /\ off + Cardinality(TokensOf(Xfers, f)) <= Blocks + d

(* An event adds one callback at most, and none when it brings the machine to rest. *)
LEMMA FireCounted ==
  ASSUME NEW event \in Events, NEW off, NEW rest, NEW d \in Nat, fsm \in States,
         Counted(d, 0, off, rest), Fire(event, off, rest)
  PROVE  /\ fsm' \in States
         /\ Counted(d, IF fsm' \in Resting THEN 0 ELSE 1, offset', open')
<1> DEFINE now == offset'
           X(f) == Cardinality(TokensOf(Xfers, f))
           T(f) == Cardinality(TokensOf(Commands, f))
<1>t. /\ rest \in [Commands -> Nat] /\ off \in Nat /\ IsFiniteSet(TokensOf(Commands, rest))
      /\ T(rest) <= d /\ off + X(rest) <= Blocks + d
      /\ T(rest) \in Nat /\ X(rest) \in Nat /\ X(rest) <= T(rest) /\ IsFiniteSet(TokensOf(Xfers, rest))
  BY XferTokens DEF Counted
<1>1. CASE /\ event \in Events \ {"Err"}
           /\ fsm' = (IF event = "Reinit" THEN "Idle" ELSE event)
           /\ offset' = (IF event = "Request" THEN 0 ELSE off)
           /\ open' = [c \in Commands |-> rest[c] + IF c \in Sends(event, offset') THEN 1 ELSE 0]
  <2>1. fsm' \in States /\ now \in Nat /\ now + X(rest) <= Blocks + d
    BY <1>1, <1>t DEF States, Events
  <2>2. open' \in [Commands -> Nat]
    BY <1>1, <1>t
  <2>3. CASE Sends(event, now) = {}
    <3>1. open' = rest
      BY <1>1, <1>t, <2>3
    <3> QED
      BY <3>1, <2>1, <1>t DEF Counted, Resting
  <2>4. CASE /\ event # "Xfer" /\ event # "Reinit" /\ Sends(event, now) = {<<event, 0>>}
             /\ <<event, 0>> \in Commands \ Xfers
    <3> DEFINE c == <<event, 0>>
    <3> HIDE DEF c
    <3>1. c \in Commands /\ c \notin Xfers /\ Sends(event, now) = {c}
      BY <2>4 DEF c
    <3>2. open'[c] = rest[c] + 1 /\ \A x \in Commands : x # c => open'[x] = rest[x]
      BY <1>1, <1>t, <3>1
    <3>3. rest[c] \in Nat
      BY <1>t, <3>1
    <3>4. IsFiniteSet(TokensOf(Commands, open')) /\ T(open') = T(rest) + 1
      BY <3>1, <3>2, <3>3, <1>t, TokenMore
    <3>5. \A x \in Xfers : open'[x] = rest[x]
      BY <3>1, <3>2 DEF Commands
    <3>6. X(open') = X(rest)
      BY <3>5, TokenSame
    <3>7. fsm' \notin Resting
      BY <1>1, <2>4 DEF Events, Resting
    <3> QED
      BY <2>1, <2>2, <3>4, <3>6, <3>7, <1>t DEF Counted
  <2>5. CASE /\ event = "Xfer" /\ now < Blocks /\ Sends(event, now) = {<<"Xfer", now>>}
             /\ <<"Xfer", now>> \in Xfers
    <3>0. PICK c \in Xfers : c = <<"Xfer", now>>
      BY <2>5
    <3>1. c \in Commands /\ Sends(event, now) = {c}
      BY <2>5, <3>0 DEF Commands
    <3>2. open'[c] = rest[c] + 1 /\ \A x \in Commands : x # c => open'[x] = rest[x]
      BY <1>1, <1>t, <3>1
    <3>3. rest[c] \in Nat
      BY <1>t, <3>1
    <3>4. IsFiniteSet(TokensOf(Commands, open')) /\ T(open') = T(rest) + 1
      BY <3>1, <3>2, <3>3, <1>t, TokenMore
    <3>5. \A x \in Xfers : x # c => open'[x] = rest[x]
      BY <3>2 DEF Commands
    <3>6. X(open') = X(rest) + 1
      BY <3>2, <3>3, <3>5, <1>t, TokenMore
    <3>7. fsm' \notin Resting
      BY <1>1, <2>5 DEF Resting
    <3> QED
      BY <2>1, <2>2, <2>5, <3>4, <3>6, <3>7, <1>t DEF Counted
  <2> QED
    BY <1>1, <2>1, <2>3, <2>4, <2>5, SendsOne
<1>2. CASE fsm' = (IF event = "Err" THEN "Err" ELSE fsm) /\ offset' = off /\ open' = rest
  BY <1>2, <1>t DEF Counted, Resting, States
<1> QED
  BY <1>1, <1>2, FireRow

(* The types; the count of callbacks; before the thread has run there is nothing, and *)
(* the destructor has returned only from a machine at rest.                           *)
UpgradeInv ==
  /\ fsm \in States
  /\ tries \in Nat /\ (tries < TryLimit \/ tries < ProgressLimit)
  /\ started \in BOOLEAN /\ destroyed \in BOOLEAN
  /\ taken \subseteq 0..Blocks - 1
  /\ doubled \in 0..MaxDoubles
  /\ Counted(doubled, IF fsm \in Resting THEN 0 ELSE 1, offset, open)
  /\ ~started => fsm = "Idle" /\ open = [c \in Commands |-> 0] /\ doubled = 0 /\ taken = {}
  /\ destroyed => started /\ fsm \in Resting

(* A new upgrader has sent nothing. *)
LEMMA UpgradeInitInv == UpgradeInit => UpgradeInv
<1> SUFFICES ASSUME UpgradeInit PROVE UpgradeInv
  OBVIOUS
<1> DEFINE none == [c \in Commands |-> 0]
<1>1. TokensOf(Commands, none) = {} /\ TokensOf(Xfers, none) = {}
  BY DEF TokensOf, Commands
<1>2. Counted(0, 0, 0, none)
  BY <1>1, FS_EmptySet DEF Counted
<1>3. /\ fsm = "Idle" /\ offset = 0 /\ tries = 0 /\ open = none
      /\ started = FALSE /\ destroyed = FALSE /\ taken = {} /\ doubled = 0
  BY DEF UpgradeInit
<1>4. Counted(doubled, IF fsm \in Resting THEN 0 ELSE 1, offset, open)
  BY <1>2, <1>3 DEF Resting
<1>5. 0 < TryLimit /\ 0 \in 0..MaxDoubles
  OBVIOUS
<1> QED
  BY <1>3, <1>4, <1>5 DEF UpgradeInv, States

(* When a callback runs it is taken from those still to run, or counted as doubled. *)
LEMMA OutcomeCounted ==
  ASSUME UpgradeInv, NEW c \in Commands, NEW rest \in Outcomes(c), Reported(c, rest)
  PROVE  /\ doubled' \in 0..MaxDoubles /\ ~destroyed /\ started
         /\ Counted(doubled', 0, offset, rest)
         /\ c \in Xfers => Counted(doubled', 0, offset + 1, rest)
<1> DEFINE X(f) == Cardinality(TokensOf(Xfers, f))
           T(f) == Cardinality(TokensOf(Commands, f))
<1>t. /\ open \in [Commands -> Nat] /\ offset \in Nat /\ IsFiniteSet(TokensOf(Commands, open))
      /\ doubled \in 0..MaxDoubles /\ open[c] > 0 /\ ~destroyed
      /\ T(open) <= doubled + 1 /\ offset + X(open) <= Blocks + doubled
      /\ T(open) \in Nat /\ X(open) \in Nat /\ IsFiniteSet(TokensOf(Xfers, open))
  BY XferTokens DEF UpgradeInv, Counted, Reported
<1>s. started
  BY <1>t DEF UpgradeInv
<1>1. CASE rest = [open EXCEPT ![c] = open[c] - 1] /\ doubled' = doubled
  <2>1. /\ rest \in [Commands -> Nat] /\ rest[c] \in Nat /\ open[c] = rest[c] + 1
        /\ \A x \in Commands : x # c => rest[x] = open[x]
    BY <1>1, <1>t
  <2>2. IsFiniteSet(TokensOf(Commands, rest)) /\ T(open) = T(rest) + 1
    BY <2>1, <1>t, TokenLess
  <2>3. CASE c \in Xfers
    <3>1. \A x \in Xfers : x # c => rest[x] = open[x]
      BY <2>1 DEF Commands
    <3>2. X(open) = X(rest) + 1
      BY <3>1, <2>1, <2>3, <1>t, TokenLess
    <3>3. T(rest) \in Nat /\ X(rest) \in Nat
      BY <2>2, XferTokens
    <3>4. T(rest) <= doubled' + 0 /\ offset + 1 + X(rest) <= Blocks + doubled'
          /\ offset + X(rest) <= Blocks + doubled' /\ offset + 1 \in Nat
      BY <1>1, <1>t, <2>2, <3>2, <3>3
    <3>5. Counted(doubled', 0, offset, rest) /\ Counted(doubled', 0, offset + 1, rest)
      BY <1>t, <2>1, <2>2, <3>4 DEF Counted
    <3> QED
      BY <1>1, <1>t, <1>s, <3>5
  <2>4. CASE c \notin Xfers
    <3>1. \A x \in Xfers : rest[x] = open[x]
      BY <2>1, <2>4 DEF Commands
    <3>2. X(open) = X(rest)
      BY <3>1, TokenSame
    <3>3. T(rest) \in Nat
      BY <2>2, XferTokens
    <3>4. T(rest) <= doubled' + 0 /\ offset + X(rest) <= Blocks + doubled'
      BY <1>1, <1>t, <2>2, <3>2, <3>3
    <3>5. Counted(doubled', 0, offset, rest)
      BY <1>t, <2>1, <2>2, <3>4 DEF Counted
    <3> QED
      BY <1>1, <1>t, <1>s, <2>4, <3>5
  <2> QED
    BY <2>3, <2>4
<1>2. CASE rest = open /\ doubled < MaxDoubles /\ doubled' = doubled + 1
  BY <1>2, <1>t, <1>s DEF Counted
<1> QED
  BY <1>1, <1>2 DEF Reported

(* Every callback, and the start and the end of the upgrade, keep the count. *)
LEMMA UpgradeStep == UpgradeInv /\ [UpgradeNext]_upgradeVars => UpgradeInv'
<1> SUFFICES ASSUME UpgradeInv, [UpgradeNext]_upgradeVars PROVE UpgradeInv'
  OBVIOUS
<1>1. CASE Start
  <2>1. Counted(0, 0, offset, open) /\ doubled = 0 /\ fsm \in States
    BY <1>1 DEF Start, UpgradeInv, Resting
  <2>2. Fire("Request", offset, open) /\ started' = TRUE /\ ~started
        /\ UNCHANGED <<tries, destroyed, taken, doubled>>
    BY <1>1 DEF Start
  <2>3. fsm' \in States /\ Counted(0, IF fsm' \in Resting THEN 0 ELSE 1, offset', open')
    <3>1. "Request" \in Events /\ 0 \in Nat
      BY DEF Events
    <3> QED
      BY <2>1, <2>2, <3>1, FireCounted
  <2> QED
    BY <2>1, <2>2, <2>3 DEF UpgradeInv
<1>2. CASE Destroy
  BY <1>2 DEF Destroy, Ended, UpgradeInv, Resting
<1>3. ASSUME NEW c \in Commands, NEW rest \in Outcomes(c), NEW event \in Events, NEW off,
             Reported(c, rest), Fire(event, off, rest),
             off = offset \/ (off = offset + 1 /\ c \in Xfers),
             UNCHANGED <<started, destroyed>>, taken' \subseteq 0..Blocks - 1,
             tries' \in Nat, tries' < TryLimit \/ tries' < ProgressLimit
      PROVE UpgradeInv'
  <2>1. /\ doubled' \in 0..MaxDoubles /\ ~destroyed /\ started
        /\ Counted(doubled', 0, off, rest)
    BY <1>3, OutcomeCounted
  <2>2. PICK d \in 0..MaxDoubles : d = doubled'
    BY <2>1
  <2>3. d \in Nat /\ fsm \in States /\ Counted(d, 0, off, rest)
    BY <2>1, <2>2 DEF UpgradeInv
  <2>4. fsm' \in States /\ Counted(d, IF fsm' \in Resting THEN 0 ELSE 1, offset', open')
    BY <1>3, <2>3, FireCounted
  <2> QED
    BY <1>3, <2>1, <2>2, <2>4 DEF UpgradeInv
<1>t. /\ tries \in Nat /\ taken \subseteq 0..Blocks - 1 /\ 0 < TryLimit
      /\ tries < TryLimit \/ tries < ProgressLimit
  BY DEF UpgradeInv
<1>4. ASSUME NEW c \in Commands, Answered(c) PROVE UpgradeInv'
  <2>1. PICK rest \in Outcomes(c) :
          /\ Reported(c, rest)
          /\ CASE c \in Xfers ->
                    /\ taken' = taken \cup {c[2]}
                    /\ Fire(IF offset + 1 < Blocks THEN "Xfer" ELSE "CompleteXfer", offset + 1, rest)
               [] c[1] = "Request" -> Fire("Xfer", offset, rest) /\ UNCHANGED taken
               [] c[1] = "CompleteXfer" -> Fire("Progress", offset, rest) /\ UNCHANGED taken
               [] c[1] = "Progress" -> Fire("Complete", offset, rest) /\ UNCHANGED taken
               [] c[1] = "Complete" -> Fire("Reinit", offset, rest) /\ UNCHANGED taken
    BY <1>4 DEF Answered, NextOffset
  <2>2. tries' = 0 /\ UNCHANGED <<started, destroyed>>
    BY <1>4 DEF Answered
  <2>3. CASE c \in Xfers
    <3>1. c[2] \in 0..Blocks - 1 /\ c[1] = "Xfer"
      BY <2>3 DEF Xfers
    <3>2. taken' \subseteq 0..Blocks - 1
          /\ Fire(IF offset + 1 < Blocks THEN "Xfer" ELSE "CompleteXfer", offset + 1, rest)
      BY <2>1, <2>3, <3>1, <1>t
    <3>3. PICK event \in Events : Fire(event, offset + 1, rest)
      BY <3>2 DEF Events
    <3> QED
      BY <1>3, <1>t, <2>1, <2>2, <2>3, <3>2, <3>3
  <2>4. CASE c \notin Xfers
    <3>1. PICK event \in Events : Fire(event, offset, rest) /\ UNCHANGED taken
      BY <2>1, <2>4 DEF Events, Commands, Xfers
    <3> QED
      BY <1>3, <1>t, <2>1, <2>2, <3>1
  <2> QED
    BY <2>3, <2>4
<1>5. ASSUME NEW c \in Commands, NotYet(c) \/ Refused(c) PROVE UpgradeInv'
  <2>1. PICK rest \in Outcomes(c), event \in Events : Reported(c, rest) /\ Fire(event, offset, rest)
    BY <1>5 DEF NotYet, Refused, Events
  <2>2. tries' = 0 /\ UNCHANGED <<started, destroyed, taken>>
    BY <1>5 DEF NotYet, Refused
  <2> QED
    BY <1>3, <1>t, <2>1, <2>2
<1>6. ASSUME NEW c \in Commands, Failed(c) PROVE UpgradeInv'
  <2>1. PICK rest \in Outcomes(c) :
          Reported(c, rest) /\ Fire(IF TriesLeft(c) THEN c[1] ELSE GiveUpEvent(c), offset, rest)
    BY <1>6 DEF Failed
  <2>2. c[1] \in Events /\ GiveUpEvent(c) \in Events
    BY DEF Commands, Xfers, GiveUpEvent, Events
  <2>3. PICK event \in Events : Fire(event, offset, rest)
    BY <2>1, <2>2
  <2>4. tries' \in Nat /\ (tries' < TryLimit \/ tries' < ProgressLimit)
    BY <1>6, <1>t DEF Failed, TriesLeft
  <2>5. UNCHANGED <<started, destroyed, taken>>
    BY <1>6 DEF Failed
  <2> QED
    BY <1>3, <1>t, <2>1, <2>3, <2>4, <2>5
<1>7. CASE UNCHANGED upgradeVars
  BY <1>7 DEF upgradeVars, UpgradeInv
<1> QED
  BY <1>1, <1>2, <1>4, <1>5, <1>6, <1>7 DEF UpgradeNext

(* The one command the machine waits for. *)
Current == IF fsm = "Xfer" THEN <<"Xfer", offset>> ELSE <<fsm, 0>>

(* As long as no callback ran twice, only the current command is open, and the blocks *)
(* taken are those before the offset: none at first, all once the transfer is over.   *)
WholeInv ==
  doubled = 0 =>
    /\ \A c \in Commands : open[c] = IF fsm \notin Resting /\ c = Current THEN 1 ELSE 0
    /\ fsm = "Request" => offset = 0 /\ taken = {}
    /\ fsm = "Xfer" => offset < Blocks /\ taken = 0..offset - 1
    /\ fsm \in {"CompleteXfer", "Progress", "Complete"} => taken = 0..Blocks - 1

(* The callback that runs is that of the current command; then nothing is open. *)
LEMMA OnlyCurrent ==
  ASSUME UpgradeInv, WholeInv, doubled' = 0,
         NEW c \in Commands, NEW rest \in Outcomes(c), Reported(c, rest)
  PROVE  /\ doubled = 0 /\ fsm \notin Resting /\ c = Current
         /\ \A x \in Commands : rest[x] = 0
<1>1. open \in [Commands -> Nat] /\ doubled \in Nat /\ open[c] > 0
  BY DEF UpgradeInv, Counted, Reported
<1>2. doubled = 0 /\ rest = [open EXCEPT ![c] = open[c] - 1]
  BY <1>1 DEF Reported
<1>3. fsm \notin Resting /\ c = Current
  BY <1>1, <1>2 DEF WholeInv
<1> QED
  BY <1>1, <1>2, <1>3 DEF WholeInv

(* An event with a row in the table opens the command of the state it leads to. *)
LEMMA FireCurrent ==
  ASSUME NEW event, NEW off \in Nat, NEW rest, NEW n, Fire(event, off, rest),
         \A x \in Commands : rest[x] = 0, <<fsm, event, n>> \in Table,
         event = "Xfer" => off < Blocks
  PROVE  /\ fsm' = (IF event = "Reinit" THEN "Idle" ELSE event)
         /\ offset' = (IF event = "Request" THEN 0 ELSE off)
         /\ \A x \in Commands : open'[x] = IF fsm' \notin Resting /\ x = Current' THEN 1 ELSE 0
<1>1. /\ fsm' = (IF event = "Reinit" THEN "Idle" ELSE event) /\ event \in Events \ {"Err"}
      /\ offset' = (IF event = "Request" THEN 0 ELSE off)
      /\ open' = [x \in Commands |-> rest[x] + IF x \in Sends(event, offset') THEN 1 ELSE 0]
  BY FireRow
<1>2. Sends(event, offset') = IF fsm' \in Resting THEN {} ELSE {Current'}
  BY <1>1 DEF Sends, Current, Resting, Events
<1>3. ASSUME NEW x \in Commands
      PROVE  open'[x] = IF fsm' \notin Resting /\ x = Current' THEN 1 ELSE 0
  <2>1. open'[x] = IF x \in Sends(event, offset') THEN 1 ELSE 0
    BY <1>1
  <2> QED
    BY <1>2, <2>1
<1> QED
  BY <1>1, <1>3

(* An error, or the end of the attempts, leaves nothing open. *)
LEMMA FireErr ==
  ASSUME NEW rest, Fire("Err", offset, rest), \A x \in Commands : rest[x] = 0
  PROVE  fsm' = "Err" /\ \A x \in Commands : open'[x] = 0
<1>1. \A n : <<fsm, "Err", n>> \notin Table
  BY DEF Table
<1> QED
  BY <1>1, FireRow

(* No callback, refusal, time-out or retry leaves a block out. *)
LEMMA WholeStep == UpgradeInv /\ WholeInv /\ [UpgradeNext]_upgradeVars => WholeInv'
<1> SUFFICES ASSUME UpgradeInv, WholeInv, [UpgradeNext]_upgradeVars, doubled' = 0 PROVE WholeInv'
  BY DEF WholeInv
<1>t. open \in [Commands -> Nat] /\ doubled \in Nat /\ offset \in Nat /\ fsm \in States
  BY DEF UpgradeInv, Counted
<1>1. CASE Start
  <2>1. /\ fsm = "Idle" /\ taken' = {} /\ \A x \in Commands : open[x] = 0
        /\ Fire("Request", offset, open)
    BY <1>1 DEF Start, UpgradeInv
  <2>2. <<fsm, "Request", "Request">> \in Table
    BY <2>1 DEF Table
  <2>3. /\ fsm' = "Request" /\ offset' = 0
        /\ \A x \in Commands : open'[x] = IF fsm' \notin Resting /\ x = Current' THEN 1 ELSE 0
    BY <1>t, <2>1, <2>2, FireCurrent
  <2> QED
    BY <2>1, <2>3 DEF WholeInv
<1>2. CASE Destroy
  BY <1>2 DEF Destroy, WholeInv, Current
<1>3. ASSUME NEW c \in Commands, Answered(c) PROVE WholeInv'
  <2>1. PICK rest \in Outcomes(c) :
          /\ Reported(c, rest)
          /\ CASE c \in Xfers ->
                    /\ taken' = taken \cup {c[2]}
                    /\ Fire(IF offset + 1 < Blocks THEN "Xfer" ELSE "CompleteXfer", offset + 1, rest)
               [] c[1] = "Request" -> Fire("Xfer", offset, rest) /\ UNCHANGED taken
               [] c[1] = "CompleteXfer" -> Fire("Progress", offset, rest) /\ UNCHANGED taken
               [] c[1] = "Progress" -> Fire("Complete", offset, rest) /\ UNCHANGED taken
               [] c[1] = "Complete" -> Fire("Reinit", offset, rest) /\ UNCHANGED taken
    BY <1>3 DEF Answered, NextOffset
  <2>2. doubled = 0 /\ fsm \notin Resting /\ c = Current /\ \A x \in Commands : rest[x] = 0
    BY <2>1, OnlyCurrent
  <2>3. CASE fsm = "Xfer"
    <3>1. /\ c \in Xfers /\ c[1] = "Xfer" /\ c[2] = offset /\ offset < Blocks
          /\ taken = 0..offset - 1
      BY <2>2, <2>3, <1>t DEF Current, Xfers, WholeInv
    <3>2. /\ taken' = 0..(offset + 1) - 1
          /\ Fire(IF offset + 1 < Blocks THEN "Xfer" ELSE "CompleteXfer", offset + 1, rest)
      <4>1. /\ taken' = taken \cup {c[2]}
            /\ Fire(IF offset + 1 < Blocks THEN "Xfer" ELSE "CompleteXfer", offset + 1, rest)
        BY <2>1, <3>1
      <4>2. (0..offset - 1) \cup {offset} = 0..(offset + 1) - 1
        BY <1>t
      <4> QED
        BY <3>1, <4>1, <4>2
    <3>3. /\ <<fsm, "Xfer", "Xfer">> \in Table
          /\ <<fsm, "CompleteXfer", "CompleteXfer">> \in Table
      BY <2>3 DEF Table
    <3>4. CASE offset + 1 < Blocks
      <4>1. Fire("Xfer", offset + 1, rest) /\ offset + 1 \in Nat
        BY <3>2, <3>4, <1>t
      <4>2. /\ fsm' = "Xfer" /\ offset' = offset + 1
            /\ \A x \in Commands : open'[x] = IF fsm' \notin Resting /\ x = Current' THEN 1 ELSE 0
        BY <2>2, <3>3, <3>4, <4>1, FireCurrent
      <4> QED
        BY <3>2, <3>4, <4>2 DEF WholeInv
    <3>5. CASE ~(offset + 1 < Blocks)
      <4>1. Fire("CompleteXfer", offset + 1, rest) /\ offset + 1 \in Nat /\ offset + 1 = Blocks
        BY <3>1, <3>2, <3>5, <1>t
      <4>2. /\ fsm' = "CompleteXfer"
            /\ \A x \in Commands : open'[x] = IF fsm' \notin Resting /\ x = Current' THEN 1 ELSE 0
        BY <2>2, <3>3, <4>1, FireCurrent
      <4> QED
        BY <3>2, <4>1, <4>2 DEF WholeInv
    <3> QED
      BY <3>4, <3>5
  <2>4. CASE fsm = "Request"
    <3>1. c \notin Xfers /\ c[1] = "Request" /\ offset = 0 /\ taken = {}
      BY <2>2, <2>4 DEF Current, Xfers, WholeInv
    <3>2. Fire("Xfer", offset, rest) /\ taken' = 0..offset - 1 /\ offset < Blocks
      BY <2>1, <3>1
    <3>3. <<fsm, "Xfer", "Xfer">> \in Table
      BY <2>4 DEF Table
    <3>4. /\ fsm' = "Xfer" /\ offset' = offset
          /\ \A x \in Commands : open'[x] = IF fsm' \notin Resting /\ x = Current' THEN 1 ELSE 0
      BY <2>2, <3>2, <3>3, <1>t, FireCurrent
    <3> QED
      BY <3>2, <3>4 DEF WholeInv
  <2>5. CASE fsm \in {"CompleteXfer", "Progress", "Complete"}
    <3>1. /\ c \notin Xfers /\ c[1] = fsm /\ taken = 0..Blocks - 1
      BY <2>2, <2>5 DEF Current, Xfers, WholeInv
    <3>2. PICK event \in {"Progress", "Complete", "Reinit"} :
            Fire(event, offset, rest) /\ taken' = 0..Blocks - 1 /\ \E n : <<fsm, event, n>> \in Table
      <4>1. /\ <<"CompleteXfer", "Progress", "Progress">> \in Table
            /\ <<"Progress", "Complete", "Complete">> \in Table
            /\ <<"Complete", "Reinit", "Idle">> \in Table
        BY DEF Table
      <4> QED
        BY <2>1, <2>5, <3>1, <4>1
    <3>3. /\ fsm' = (IF event = "Reinit" THEN "Idle" ELSE event)
          /\ \A x \in Commands : open'[x] = IF fsm' \notin Resting /\ x = Current' THEN 1 ELSE 0
      BY <2>2, <3>2, <1>t, FireCurrent
    <3> QED
      BY <3>2, <3>3 DEF WholeInv
  <2> QED
    BY <2>2, <2>3, <2>4, <2>5, <1>t DEF States, Resting
<1>4. ASSUME NEW c \in Commands, NEW rest \in Outcomes(c), Reported(c, rest),
             Fire(c[1], offset, rest), taken' = taken
      PROVE WholeInv'
  <2>1. doubled = 0 /\ fsm \notin Resting /\ c = Current /\ \A x \in Commands : rest[x] = 0
    BY <1>4, OnlyCurrent
  <2>2. c[1] = fsm /\ fsm \in {"Request", "Xfer", "CompleteXfer", "Progress", "Complete"}
    BY <2>1, <1>t DEF Current, States, Resting
  <2>3. <<fsm, c[1], fsm>> \in Table /\ (c[1] = "Xfer" => offset < Blocks)
    BY <2>1, <2>2 DEF Table, WholeInv
  <2>4. /\ fsm' = fsm /\ offset' = (IF fsm = "Request" THEN 0 ELSE offset)
        /\ \A x \in Commands : open'[x] = IF fsm' \notin Resting /\ x = Current' THEN 1 ELSE 0
    BY <1>4, <1>t, <2>1, <2>2, <2>3, FireCurrent
  <2> QED
    BY <1>4, <2>1, <2>4 DEF WholeInv
<1>5. ASSUME NEW c \in Commands, NEW rest \in Outcomes(c), Reported(c, rest), Fire("Err", offset, rest)
      PROVE WholeInv'
  <2>1. \A x \in Commands : rest[x] = 0
    BY <1>5, OnlyCurrent
  <2>2. fsm' = "Err" /\ \A x \in Commands : open'[x] = 0
    BY <1>5, <2>1, FireErr
  <2> QED
    BY <2>2 DEF WholeInv, Resting
<1>6. ASSUME NEW c \in Commands, Failed(c) PROVE WholeInv'
  <2>1. PICK rest \in Outcomes(c) :
          Reported(c, rest) /\ Fire(IF TriesLeft(c) THEN c[1] ELSE GiveUpEvent(c), offset, rest)
    BY <1>6 DEF Failed
  <2>2. taken' = taken
    BY <1>6 DEF Failed
  <2>3. CASE TriesLeft(c)
    BY <1>4, <2>1, <2>2, <2>3
  <2>4. CASE ~TriesLeft(c) /\ c[1] # "Complete"
    BY <1>5, <2>1, <2>4 DEF GiveUpEvent
  <2>5. CASE ~TriesLeft(c) /\ c[1] = "Complete"
    <3>1. Fire("Reinit", offset, rest)
      BY <2>1, <2>5 DEF GiveUpEvent
    <3>2. doubled = 0 /\ c = Current /\ \A x \in Commands : rest[x] = 0
      BY <2>1, OnlyCurrent
    <3>3. <<fsm, "Reinit", "Idle">> \in Table
      BY <2>5, <3>2 DEF Current, Table
    <3>4. /\ fsm' = "Idle"
          /\ \A x \in Commands : open'[x] = IF fsm' \notin Resting /\ x = Current' THEN 1 ELSE 0
      BY <3>1, <3>2, <3>3, <1>t, FireCurrent
    <3> QED
      BY <3>4 DEF WholeInv
  <2> QED
    BY <2>3, <2>4, <2>5
<1>7. ASSUME NEW c \in Commands, NotYet(c) PROVE WholeInv'
  BY <1>4, <1>7 DEF NotYet
<1>8. ASSUME NEW c \in Commands, Refused(c) PROVE WholeInv'
  BY <1>5, <1>8 DEF Refused
<1>9. CASE UNCHANGED upgradeVars
  BY <1>9 DEF upgradeVars, WholeInv, Current
<1> QED
  BY <1>1, <1>2, <1>3, <1>6, <1>7, <1>8, <1>9 DEF UpgradeNext

(* An upgrade that is declared done has every block, and when the destructor returns *)
(* no callback that holds the upgrader is still to run, unless one ran twice: for    *)
(* any firmware, any limits and any order of answers, refusals and time-outs.        *)
THEOREM UpgradeKept == UpgradeSpec => []UpgradeSound
<1>1. UpgradeInit => WholeInv
  BY DEF UpgradeInit, WholeInv, Resting
<1>2. UpgradeSpec => [](UpgradeInv /\ WholeInv)
  BY <1>1, UpgradeInitInv, UpgradeStep, WholeStep, PTL DEF UpgradeSpec
<1>3. ASSUME UpgradeInv, WholeInv PROVE UpgradeSound
  <2>1. /\ open \in [Commands -> Nat] /\ offset \in Nat /\ doubled \in 0..MaxDoubles
        /\ IsFiniteSet(TokensOf(Commands, open))
        /\ offset + Cardinality(TokensOf(Xfers, open)) <= Blocks + doubled
        /\ Cardinality(TokensOf(Commands, open)) <= doubled + IF fsm \in Resting THEN 0 ELSE 1
    BY <1>3 DEF UpgradeInv, Counted
  <2>2. Cardinality(TokensOf(Xfers, open)) \in Nat
    BY <2>1, XferTokens
  <2>3. UpgradeTypeOK
    BY <1>3, <2>1, <2>2 DEF UpgradeTypeOK, UpgradeInv
  <2>4. WholeImage
    BY <1>3, <2>1 DEF WholeImage, WholeInv
  <2>5. NothingLeftBehind
    <3>1. InFlight = Cardinality(TokensOf(Commands, open))
      BY DEF InFlight, Tokens, TokensOf
    <3>2. destroyed => fsm \in Resting
      BY <1>3 DEF UpgradeInv
    <3>3. Cardinality(TokensOf(Commands, open)) \in Nat
      BY <2>1, FS_CardinalityType
    <3> QED
      BY <2>1, <3>1, <3>2, <3>3 DEF NothingLeftBehind
  <2> QED
    BY <2>3, <2>4, <2>5 DEF UpgradeSound
<1> QED
  BY <1>2, <1>3, PTL

-----------------------------------------------------------------------------
(* SdkLifecycle. *)

USE LifecycleAssumption

Places == {"out", "threads", "channels", "thread", "flag", "in", "removing", "closing", "joining"}
Todos == {<< >>, <<"data">>, <<"detection", "data">>}
Tasks == [op : {"add", "remove"}, fd : 0..MaxFds]
Loops == [runs : BOOLEAN, quit : BOOLEAN, tasks : Seq(Tasks), batch : Seq(Tasks),
          polled : SUBSET [fd : Fds, owner : Sessions], ready : 0..MaxFds,
          adds : {"nothing", "data", "rest"}]

(* The two channels of a session. *)
LEMMA ChannelNames == Channels = {"detection", "data"}
<1>1. Order[1] = "detection" /\ Order[2] = "data" /\ DOMAIN Order = 1..2
  BY DEF Order
<1>2. \A i : i \in 1..2 <=> i = 1 \/ i = 2
  OBVIOUS
<1>3. Channels = {Order[i] : i \in 1..2}
  BY <1>1 DEF Channels, ToSet
<1> QED
  BY <1>1, <1>2, <1>3

(* What is still to do in a step of Init or Uninit: a rest of the two channels. *)
Rest(t) == {t[i] : i \in 1..Len(t)}

(* NextChannel takes the first channel off the list and no other. *)
LEMMA TodoNext ==
  ASSUME NEW t \in Todos, t # << >>
  PROVE  /\ Head(t) \in Channels /\ Tail(t) \in Todos
         /\ Rest(t) \subseteq Channels
         /\ Head(t) \in Rest(t) /\ Rest(Tail(t)) = Rest(t) \ {Head(t)}
         /\ (Len(t) > 1) <=> (Tail(t) # << >>)
<1> USE DEF Rest
<1>0. /\ Rest(<< >>) = {} /\ Rest(<<"data">>) = {"data"}
      /\ Rest(<<"detection", "data">>) = {"detection", "data"}
  OBVIOUS
<1>1. CASE t = <<"data">>
  <2>1. Head(t) = "data" /\ Tail(t) = << >> /\ Len(t) = 1
    BY <1>1
  <2> HIDE DEF Rest
  <2> QED
    BY <1>0, <1>1, <2>1, ChannelNames DEF Todos
<1>2. CASE t = <<"detection", "data">>
  <2>1. Head(t) = "detection" /\ Tail(t) = <<"data">> /\ Len(t) = 2 /\ <<"data">> # << >>
    BY <1>2
  <2> HIDE DEF Rest
  <2> QED
    BY <1>0, <1>2, <2>1, ChannelNames DEF Todos
<1> QED
  BY <1>1, <1>2 DEF Todos

(* The system gives the least descriptor that is free. *)
LEMMA LeastFree ==
  ASSUME NEW S \in SUBSET Nat, S # {}
  PROVE  Min(S) \in S
<1> DEFINE R == OpToRel(<, Nat)
<1>1. IsWellFoundedOn(R, Nat)
  BY NatLessThanWellFounded
<1>2. R = {ss \in Nat \X Nat : ss[1] < ss[2]}
  BY DEF OpToRel
<1> HIDE DEF R
<1>3. PICK x \in S : \A y \in S : ~(<<y, x>> \in R)
  BY <1>1, WFMin
<1>4. ASSUME NEW y \in S PROVE x <= y
  <2> DEFINE ss == <<y, x>>
  <2>1. ss \notin R /\ ss \in Nat \X Nat /\ ss[1] = y /\ ss[2] = x
    BY <1>3
  <2> HIDE DEF ss
  <2>2. ~(ss[1] < ss[2])
    BY <1>2, <2>1
  <2> QED
    BY <2>1, <2>2
<1> QED
  BY <1>4 DEF Min

(* The loop of session s, while the descriptors belong to the sessions f says: what it *)
(* polls was opened by its session, and what it was told to add or is about to read is *)
(* closed or still that session's.                                                     *)
GoodLoop(s, l, f) ==
  /\ l \in Loops
  /\ ~l.runs => l = NoLoop
  /\ \A p \in l.polled : p.owner = s
  /\ \A i \in 1..Len(l.tasks) :
       l.tasks[i].op = "add" => l.tasks[i].fd \in Fds /\ f[l.tasks[i].fd] \in {0, s}
  /\ \A i \in 1..Len(l.batch) :
       l.batch[i].op = "add" => l.batch[i].fd \in Fds /\ f[l.batch[i].fd] \in {0, s}
  /\ l.ready # 0 => l.ready \in Fds /\ f[l.ready] \in {0, s}

(* A loop that has not begun, or has ended, is good. *)
LEMMA GoodNone ==
  ASSUME NEW s, NEW f
  PROVE  GoodLoop(s, NoLoop, f)
<1>1. << >> \in Seq(Tasks) /\ Len(<< >>) = 0 /\ 0 \in 0..MaxFds
  OBVIOUS
<1> QED
  BY <1>1 DEF GoodLoop, NoLoop, Loops

(* Sockets that are closed, or opened by its own session, do a loop no harm. *)
LEMMA GoodKept ==
  ASSUME NEW s, NEW l, NEW f, NEW g, GoodLoop(s, l, f),
         \A x \in Fds : g[x] = f[x] \/ g[x] = 0 \/ g[x] = s
  PROVE  GoodLoop(s, l, g)
BY DEF GoodLoop

(* A loop that was told nothing yet. *)
Fresh(l) == /\ l.tasks = << >> /\ l.batch = << >> /\ l.polled = {}
            /\ l.ready = 0 /\ l.adds = "nothing"

(* Descriptors are of no concern to a loop that was told nothing. *)
LEMMA FreshGood ==
  ASSUME NEW s, NEW l \in Loops, NEW f, Fresh(l), ~l.runs => l = NoLoop
  PROVE  GoodLoop(s, l, f)
<1>1. Len(<< >>) = 0
  OBVIOUS
<1> QED
  BY <1>1 DEF GoodLoop, Fresh

(* The loops of the session before run only while the next Init replaces them one by *)
(* one, that of the search first; those of the session run from then on, and are told *)
(* nothing before all of them do.                                                     *)
LoopPlaces ==
  \A s \in Sessions, c \in Channels :
    /\ s > session => ~loops[s][c].runs
    /\ s < session /\ loops[s][c].runs => s = session - 1 /\ app = "threads" /\ c \in Rest(todo)
    /\ s < session /\ loops[s]["detection"].runs => loops[s]["data"].runs /\ ~loops[s]["data"].quit
    /\ s = session => /\ ~loops[s][c].quit
                      /\ loops[s][c].runs \/ (app = "threads" /\ c \in Rest(todo))
                      /\ app = "threads" => Fresh(loops[s][c])

(* The types; every loop is good, and runs when its session has it run. *)
LifeInv ==
  /\ app \in Places /\ todo \in Todos /\ session \in 0..MaxSessions
  /\ fds \in [Fds -> 0..MaxSessions] /\ channel \in [Channels -> 0..MaxFds]
  /\ sockets \subseteq Fds /\ found \in 0..MaxFound
  /\ detector \in {"none", "new", "runs", "ended"}
  /\ stop \in BOOLEAN /\ deleter \in BOOLEAN /\ ended \in BOOLEAN /\ crashed \in BOOLEAN
  /\ dirty \in BOOLEAN /\ late \in BOOLEAN
  /\ loops \in [Sessions -> [Channels -> Loops]]
  /\ \A s \in Sessions, c \in Channels : GoodLoop(s, loops[s][c], fds)
  /\ todo # << >> <=> app \in {"threads", "channels", "removing"}
  /\ app # "out" => session \in Sessions
  /\ LoopPlaces

(* No session has begun: no loop runs. *)
LEMMA LifeInitInv == LifeInit => LifeInv
<1> SUFFICES ASSUME LifeInit PROVE LifeInv
  OBVIOUS
<1>1. \A s \in Sessions, c \in Channels : loops[s][c] = NoLoop /\ GoodLoop(s, NoLoop, fds)
  BY GoodNone DEF LifeInit
<1>2. NoLoop \in Loops /\ ~NoLoop.runs
  BY GoodNone DEF GoodLoop, NoLoop
<1>3. loops \in [Sessions -> [Channels -> Loops]]
  BY <1>2 DEF LifeInit
<1>4. session = 0 /\ \A s \in Sessions : s > 0
  BY DEF LifeInit, Sessions
<1>5. 0 \in 0..MaxSessions /\ 0 \in 0..MaxFds /\ 0 \in 0..MaxFound
  OBVIOUS
<1>6. /\ app = "out" /\ todo = << >> /\ app \in Places /\ todo \in Todos
      /\ app \notin {"threads", "channels", "removing"}
  BY DEF LifeInit, Places, Todos
<1>7. /\ session \in 0..MaxSessions
      /\ fds \in [Fds -> 0..MaxSessions] /\ channel \in [Channels -> 0..MaxFds]
      /\ detector \in {"none", "new", "runs", "ended"}
      /\ stop \in BOOLEAN /\ deleter \in BOOLEAN /\ ended \in BOOLEAN
      /\ crashed \in BOOLEAN /\ dirty \in BOOLEAN /\ late \in BOOLEAN
      /\ sockets \subseteq Fds /\ found \in 0..MaxFound
  BY <1>5 DEF LifeInit
<1>8. \A s \in Sessions : s > session /\ ~(s < session) /\ s # session
  BY <1>4 DEF Sessions
<1>9. \A s \in Sessions, c \in Channels : ~loops[s][c].runs /\ GoodLoop(s, loops[s][c], fds)
  BY <1>1, <1>2
<1> QED
  BY <1>3, <1>6, <1>7, <1>8, <1>9 DEF LifeInv, LoopPlaces

(* One loop is changed and the others are not. *)
LEMMA OneLoop ==
  ASSUME LifeInv, NEW s \in Sessions, NEW c \in Channels, NEW after \in Loops,
         loops' = [loops EXCEPT ![s][c] = after]
  PROVE  /\ loops' \in [Sessions -> [Channels -> Loops]]
         /\ \A x \in Sessions, y \in Channels :
              loops'[x][y] = IF x = s /\ y = c THEN after ELSE loops[x][y]
BY DEF LifeInv

(* A step of an IO thread within its loop, or its end once it was told to quit. *)
LEMMA OneLoopKeeps ==
  ASSUME LifeInv, NEW s \in Sessions, NEW c \in Channels, NEW after,
         loops[s][c].runs, loops' = [loops EXCEPT ![s][c] = after], GoodLoop(s, after, fds),
         \/ after.runs /\ after.quit = loops[s][c].quit /\ ~Fresh(loops[s][c])
         \/ after = NoLoop /\ loops[s][c].quit,
         UNCHANGED <<app, todo, session, fds, channel, sockets, stop, detector, deleter, ended, dirty>>,
         crashed' \in BOOLEAN, late' \in BOOLEAN, found' \in 0..MaxFound
  PROVE  LifeInv'
<1>1. after \in Loops
  BY DEF GoodLoop
<1>2. /\ loops' \in [Sessions -> [Channels -> Loops]]
      /\ \A x \in Sessions, y \in Channels :
           loops'[x][y] = IF x = s /\ y = c THEN after ELSE loops[x][y]
  BY <1>1, OneLoop
<1>3. ~NoLoop.runs /\ "detection" \in Channels /\ "data" \in Channels
  BY ChannelNames DEF NoLoop
<1>4. \A x \in Sessions, y \in Channels : GoodLoop(x, loops'[x][y], fds')
  BY <1>1, <1>2 DEF LifeInv
<1>5. ASSUME NEW x \in Sessions, NEW y \in Channels
      PROVE  /\ x > session => ~loops'[x][y].runs
             /\ x < session /\ loops'[x][y].runs =>
                  x = session - 1 /\ app = "threads" /\ y \in Rest(todo)
             /\ x < session /\ loops'[x]["detection"].runs =>
                  loops'[x]["data"].runs /\ ~loops'[x]["data"].quit
             /\ x = session => /\ ~loops'[x][y].quit
                               /\ loops'[x][y].runs \/ (app = "threads" /\ y \in Rest(todo))
                               /\ app = "threads" => Fresh(loops'[x][y])
  <2>0. /\ ~(s > session)
        /\ s < session => s = session - 1 /\ app = "threads" /\ c \in Rest(todo)
        /\ s = session => ~loops[s][c].quit /\ (app = "threads" => Fresh(loops[s][c]))
    BY DEF LifeInv, LoopPlaces, Sessions
  <2>1. x < session /\ loops'[x]["detection"].runs =>
          loops'[x]["data"].runs /\ ~loops'[x]["data"].quit
    <3>1. CASE x = s
      <4>1. loops'[s]["detection"].runs => loops[s]["detection"].runs
        BY <1>2, <1>3
      <4>2. s < session /\ loops[s]["detection"].runs => loops[s]["data"].runs /\ ~loops[s]["data"].quit
        BY <1>3 DEF LifeInv, LoopPlaces
      <4>3. CASE c = "data"
        BY <1>2, <1>3, <3>1, <4>1, <4>2, <4>3
      <4>4. CASE c # "data"
        BY <1>2, <1>3, <3>1, <4>1, <4>2, <4>4
      <4> QED
        BY <4>3, <4>4
    <3>2. CASE x # s
      <4>1. loops'[x]["detection"] = loops[x]["detection"] /\ loops'[x]["data"] = loops[x]["data"]
        BY <1>2, <1>3, <3>2
      <4> QED
        BY <4>1, <1>3 DEF LifeInv, LoopPlaces
    <3> QED
      BY <3>1, <3>2
  <2>2. CASE x = s /\ y = c
    <3>1. loops'[x][y] = after
      BY <1>2, <2>2
    <3>2. CASE after = NoLoop /\ loops[s][c].quit
      BY <1>3, <2>0, <2>1, <2>2, <3>1, <3>2
    <3>3. CASE after.runs /\ after.quit = loops[s][c].quit /\ ~Fresh(loops[s][c])
      BY <2>0, <2>1, <2>2, <3>1, <3>3
    <3> QED
      BY <3>2, <3>3
  <2>3. CASE ~(x = s /\ y = c)
    <3>1. loops'[x][y] = loops[x][y]
      BY <1>2, <2>3
    <3> QED
      BY <2>1, <3>1 DEF LifeInv, LoopPlaces
  <2> QED
    BY <2>2, <2>3
<1>6. LoopPlaces'
  BY <1>5 DEF LoopPlaces
<1> QED
  BY <1>2, <1>4, <1>6 DEF LifeInv

(* The same of a step that changes its loop and nothing else. *)
LEMMA LoopStepKeeps ==
  ASSUME LifeInv, NEW s \in Sessions, NEW c \in Channels, NEW after,
         LoopStep(s, c, after), GoodLoop(s, after, fds),
         \/ after.runs /\ after.quit = loops[s][c].quit /\ ~Fresh(loops[s][c])
         \/ after = NoLoop /\ loops[s][c].quit
  PROVE  LifeInv'
<1>1. /\ loops[s][c].runs /\ loops' = [loops EXCEPT ![s][c] = after]
      /\ UNCHANGED <<app, todo, session, fds, channel, sockets, stop, detector, deleter, ended, dirty>>
      /\ UNCHANGED <<crashed, late, found>>
  BY DEF LoopStep, history
<1>2. crashed' \in BOOLEAN /\ late' \in BOOLEAN /\ found' \in 0..MaxFound
  BY <1>1 DEF LifeInv
<1> QED
  BY <1>1, <1>2, OneLoopKeeps

(* AddDelegateAsync adds a socket of its own session, or nothing if it was closed. *)
LEMMA AfterTaskGood ==
  ASSUME NEW s \in Sessions, NEW l, GoodLoop(s, l, fds), l.runs, l.batch # << >>,
         fds \in [Fds -> 0..MaxSessions]
  PROVE  GoodLoop(s, [l EXCEPT !.polled = AfterTask(l.polled, Head(l.batch)), !.batch = Tail(l.batch)], fds)
<1> DEFINE t == Head(l.batch)
           now == AfterTask(l.polled, t)
           rest == Tail(l.batch)
<1>1. /\ l \in Loops /\ l.batch \in Seq(Tasks) /\ t = l.batch[1] /\ 1 \in 1..Len(l.batch)
  BY DEF GoodLoop, Loops
<1>2. \A i \in 1..Len(rest) : i + 1 \in 1..Len(l.batch) /\ rest[i] = l.batch[i + 1]
  BY <1>1
<1>3. rest \in Seq(Tasks)
  BY <1>1
<1>4. t.op = "add" => t.fd \in Fds /\ fds[t.fd] \in {0, s}
  BY <1>1 DEF GoodLoop
<1>5. ASSUME NEW p \in now PROVE p \in [fd : Fds, owner : Sessions] /\ p.owner = s
  <2> HIDE DEF t
  <2>1. p \in l.polled \/ (t.op = "add" /\ fds[t.fd] # 0 /\ p = [fd |-> t.fd, owner |-> fds[t.fd]])
    BY <1>5 DEF AfterTask, AddDelegateAsync, RemoveDelegateAsync
  <2>2. CASE p \in l.polled
    BY <1>1, <2>2 DEF GoodLoop, Loops
  <2>3. CASE t.op = "add" /\ fds[t.fd] # 0 /\ p = [fd |-> t.fd, owner |-> fds[t.fd]]
    BY <1>4, <2>3
  <2> QED
    BY <2>1, <2>2, <2>3
<1> HIDE DEF now, rest, t
<1> DEFINE after == [l EXCEPT !.polled = now, !.batch = rest]
<1>6. /\ after.polled = now /\ after.batch = rest /\ after.runs = l.runs /\ after.tasks = l.tasks
      /\ after.ready = l.ready /\ after \in Loops
  <2>1. now \in SUBSET [fd : Fds, owner : Sessions]
    BY <1>5
  <2> QED
    BY <1>1, <1>3, <2>1 DEF Loops
<1> HIDE DEF after
<1>7. \A i \in 1..Len(rest) :
        rest[i].op = "add" => rest[i].fd \in Fds /\ fds[rest[i].fd] \in {0, s}
  BY <1>2 DEF GoodLoop
<1>8. GoodLoop(s, after, fds)
  BY <1>5, <1>6, <1>7 DEF GoodLoop
<1> QED
  BY <1>8 DEF after, now, rest, t

(* IOLoop::Loop: what it reads is the socket it was told to, or a closed one. *)
LEMMA ThreadsStep ==
  ASSUME LifeInv, NEW s \in Sessions, NEW c \in Channels,
         Poll(s, c) \/ Handle(s, c) \/ RunTasks(s, c) \/ EndThread(s, c)
  PROVE  LifeInv'
<1> DEFINE l == loops[s][c]
<1>t. /\ l \in Loops /\ GoodLoop(s, l, fds) /\ fds \in [Fds -> 0..MaxSessions]
      /\ l.tasks \in Seq(Tasks) /\ l.batch \in Seq(Tasks) /\ l.polled \subseteq [fd : Fds, owner : Sessions]
  BY DEF LifeInv, Loops
<1>1. CASE Poll(s, c)
  <2>1. PICK p \in l.polled : fds[p.fd] = p.owner /\ LoopStep(s, c, [l EXCEPT !.ready = p.fd])
    BY <1>1 DEF Poll
  <2> DEFINE after == [l EXCEPT !.ready = p.fd]
  <2>2. p.owner = s /\ p.fd \in Fds /\ p.fd \in 0..MaxFds
    BY <1>t DEF GoodLoop, Fds
  <2>3. /\ after \in Loops /\ after.ready = p.fd /\ after.runs = l.runs /\ after.tasks = l.tasks
        /\ after.batch = l.batch /\ after.polled = l.polled /\ after.quit = l.quit
    BY <1>t, <2>2 DEF Loops
  <2>4. l.runs /\ LoopStep(s, c, after)
    BY <2>1 DEF LoopStep
  <2>f. ~Fresh(l)
    BY DEF Fresh
  <2> HIDE DEF after, l
  <2>5. GoodLoop(s, after, fds)
    BY <1>t, <2>1, <2>2, <2>3, <2>4 DEF GoodLoop
  <2> QED
    BY <2>f, <2>3, <2>4, <2>5, LoopStepKeeps DEF l
<1>2. CASE Handle(s, c)
  <2> DEFINE after == [l EXCEPT !.ready = 0]
  <2>1. 0 \in 0..MaxFds
    OBVIOUS
  <2>3. /\ after \in Loops /\ after.ready = 0 /\ after.runs = l.runs /\ after.tasks = l.tasks
        /\ after.batch = l.batch /\ after.polled = l.polled /\ after.quit = l.quit
    BY <1>t, <2>1 DEF Loops
  <2>4. l.runs /\ LoopStep(s, c, after) /\ ~Fresh(l)
    BY <1>2 DEF Handle, LoopStep, Fresh
  <2> HIDE DEF after, l
  <2>5. GoodLoop(s, after, fds)
    BY <1>t, <2>3, <2>4 DEF GoodLoop
  <2> QED
    BY <2>3, <2>4, <2>5, LoopStepKeeps DEF l
<1>3. CASE l.tasks # << >> /\ LoopStep(s, c, [l EXCEPT !.batch = l.tasks, !.tasks = << >>])
  <2> DEFINE after == [l EXCEPT !.batch = l.tasks, !.tasks = << >>]
  <2>1. << >> \in Seq(Tasks)
    OBVIOUS
  <2>3. /\ after \in Loops /\ after.ready = l.ready /\ after.runs = l.runs /\ after.tasks = << >>
        /\ after.batch = l.tasks /\ after.polled = l.polled /\ after.quit = l.quit
    BY <1>t, <2>1 DEF Loops
  <2>4. l.runs /\ LoopStep(s, c, after) /\ Len(<< >>) = 0 /\ ~Fresh(l)
    BY <1>3 DEF LoopStep, Fresh
  <2> HIDE DEF after, l
  <2>5. GoodLoop(s, after, fds)
    BY <1>t, <2>3, <2>4 DEF GoodLoop
  <2> QED
    BY <2>3, <2>4, <2>5, LoopStepKeeps DEF l
<1>4. CASE /\ l.batch # << >>
           /\ LoopStep(s, c, [l EXCEPT !.polled = AfterTask(l.polled, Head(l.batch)), !.batch = Tail(l.batch)])
  <2> DEFINE after == [l EXCEPT !.polled = AfterTask(l.polled, Head(l.batch)), !.batch = Tail(l.batch)]
  <2>1. l.runs /\ LoopStep(s, c, after) /\ ~Fresh(l)
    BY <1>4 DEF LoopStep, Fresh
  <2>2. GoodLoop(s, after, fds)
    <3> HIDE DEF l
    <3> QED
      BY <1>t, <1>4, <2>1, AfterTaskGood
  <2>3. after.runs = l.runs /\ after.quit = l.quit
    BY <1>t DEF Loops
  <2> HIDE DEF after
  <2> QED
    BY <2>1, <2>2, <2>3, LoopStepKeeps
<1>5. CASE EndThread(s, c)
  <2>1. l.quit /\ LoopStep(s, c, NoLoop)
    BY <1>5 DEF EndThread
  <2>2. GoodLoop(s, NoLoop, fds)
    BY GoodNone
  <2> QED
    BY <2>1, <2>2, LoopStepKeeps
<1> QED
  BY <1>1, <1>2, <1>3, <1>4, <1>5 DEF RunTasks

(* The parts of LifeInv that no step outside the loops touches, apart from those *)
(* it is stated of.                                                              *)
LEMMA LoopsUntouched ==
  ASSUME LifeInv, loops' = loops, session' = session,
         fds' \in [Fds -> 0..MaxSessions],
         \A f \in Fds : fds'[f] = fds[f] \/ fds'[f] = 0,
         channel' \in [Channels -> 0..MaxFds],
         sockets' \subseteq Fds, found' = found, late' \in BOOLEAN,
         app' \in Places, todo' \in Todos,
         todo' # << >> <=> app' \in {"threads", "channels", "removing"},
         app' # "out" => app # "out",
         detector' \in {"none", "new", "runs", "ended"},
         stop' \in BOOLEAN, deleter' \in BOOLEAN, ended' \in BOOLEAN, crashed' \in BOOLEAN,
         dirty' \in BOOLEAN,
         app = "threads" => app' = "threads" /\ todo' = todo,
         app # "threads" => app' # "threads"
  PROVE  LifeInv'
<1>1. \A s \in Sessions, c \in Channels : GoodLoop(s, loops'[s][c], fds')
  BY GoodKept DEF LifeInv
<1>2. LoopPlaces'
  BY DEF LifeInv, LoopPlaces
<1> QED
  BY <1>1, <1>2 DEF LifeInv

(* A task is posted to a loop of the session: what it names to add is the session's. *)
LEMMA PostKeeps ==
  ASSUME LifeInv, app \in {"channels", "removing"}, NEW c \in Channels, NEW task \in Tasks,
         loops' = PostTask(session, c, task), session' = session,
         fds' \in [Fds -> 0..MaxSessions],
         \A f \in Fds : fds'[f] = fds[f] \/ fds'[f] = session,
         task.op = "add" => task.fd \in Fds /\ fds'[task.fd] \in {0, session},
         channel' \in [Channels -> 0..MaxFds], sockets' \subseteq Fds,
         app' \in Places, todo' \in Todos,
         todo' # << >> <=> app' \in {"threads", "channels", "removing"},
         app' # "threads",
         UNCHANGED <<stop, detector, deleter, ended, crashed, found, dirty, late>>
  PROVE  LifeInv'
<1>0. PICK k \in Sessions : k = session
  BY DEF LifeInv
<1>p. PICK l : l = loops[k][c]
  OBVIOUS
<1>1. /\ l \in Loops /\ GoodLoop(k, l, fds) /\ l.runs
      /\ l.tasks \in Seq(Tasks) /\ Append(l.tasks, task) \in Seq(Tasks)
  <2>1. l \in Loops /\ GoodLoop(k, l, fds) /\ l.runs
    BY <1>0, <1>p DEF LifeInv, LoopPlaces
  <2>2. l.tasks \in Seq(Tasks)
    BY <2>1 DEF Loops
  <2> QED
    BY <2>1, <2>2
<1>a. PICK after : after = [l EXCEPT !.tasks = Append(l.tasks, task)]
  OBVIOUS
<1>2. /\ after \in Loops /\ after.runs = l.runs /\ after.quit = l.quit
      /\ after.batch = l.batch /\ after.polled = l.polled /\ after.ready = l.ready
      /\ after.tasks = Append(l.tasks, task)
  BY <1>1, <1>a DEF Loops
<1>3. loops' = [loops EXCEPT ![k][c] = after]
  BY <1>0, <1>p, <1>a DEF PostTask, LifeInv
<1>b. after \in Loops
  BY <1>2
<1>4. /\ loops' \in [Sessions -> [Channels -> Loops]]
      /\ \A x \in Sessions, y \in Channels :
           loops'[x][y] = IF x = k /\ y = c THEN after ELSE loops[x][y]
  <2>1. loops \in [Sessions -> [Channels -> Loops]]
    BY DEF LifeInv
  <2> QED
    BY <1>3, <1>b, <2>1
<1>5. \A f \in Fds : fds'[f] = fds[f] \/ fds'[f] = 0 \/ fds'[f] = k
  BY <1>0
<1>6. GoodLoop(k, l, fds')
  BY <1>1, <1>5, GoodKept
<1>7. GoodLoop(k, after, fds')
  <2>1. \A i \in 1..Len(after.tasks) :
          (i \in 1..Len(l.tasks) /\ after.tasks[i] = l.tasks[i]) \/ after.tasks[i] = task
    BY <1>1, <1>2
  <2> QED
    BY <1>0, <1>1, <1>2, <1>6, <2>1 DEF GoodLoop
<1>8. ASSUME NEW s \in Sessions, NEW x \in Channels PROVE GoodLoop(s, loops'[s][x], fds')
  <2>1. GoodLoop(s, loops[s][x], fds)
    BY DEF LifeInv
  <2>2. CASE s = k /\ x = c
    BY <1>4, <1>7, <2>2
  <2>3. CASE s = k /\ x # c
    BY <1>4, <1>5, <2>1, <2>3, GoodKept
  <2>4. CASE s # k
    <3>1. ~loops[s][x].runs
      BY <1>0, <2>4 DEF LifeInv, LoopPlaces, Sessions
    <3>2. loops[s][x] = NoLoop
      BY <2>1, <3>1 DEF GoodLoop
    <3> QED
      BY <1>4, <2>4, <3>2, GoodNone
  <2> QED
    BY <2>2, <2>3, <2>4
<1>9. LoopPlaces'
  <2>1. \A s \in Sessions, x \in Channels :
          /\ s > session => ~loops[s][x].runs
          /\ s < session => ~loops[s][x].runs
          /\ s = session => ~loops[s][x].quit /\ loops[s][x].runs
    BY DEF LifeInv, LoopPlaces
  <2>2. \A s \in Sessions, x \in Channels :
          /\ loops'[s][x].runs = loops[s][x].runs
          /\ loops'[s][x].quit = loops[s][x].quit
    BY <1>2, <1>4, <1>p
  <2>3. "detection" \in Channels /\ app # "threads"
    BY ChannelNames
  <2> QED
    BY <2>1, <2>2, <2>3 DEF LoopPlaces
<1> QED
  BY <1>0, <1>4, <1>8, <1>9 DEF LifeInv

(* LivoxLidarSdkInit starts a session: the loops that still run are of earlier ones. *)
LEMMA InitLogsKeeps ==
  ASSUME LifeInv, InitLogs
  PROVE  LifeInv'
<1>1. /\ Order \in Todos /\ Order # << >> /\ Rest(Order) = Channels
  BY ChannelNames, Z3 DEF Order, Todos, Rest
<1>2. /\ app = "out" /\ session \in 0..MaxSessions /\ session < MaxSessions /\ session' = session + 1
      /\ app' = "threads" /\ todo' = Order /\ crashed' \in BOOLEAN /\ deleter' \in BOOLEAN
      /\ UNCHANGED <<fds, channel, sockets, loops, stop, detector, ended, found, dirty, late>>
  BY DEF InitLogs, LifeInv, history
<1>3. LoopPlaces'
  <2>1. session \in Nat /\ \A s \in Sessions : s \in Nat
    BY <1>2 DEF Sessions
  <2>2. \A s \in Sessions, c \in Channels :
          /\ s > session => ~loops[s][c].runs
          /\ s < session => ~loops[s][c].runs
          /\ s = session => ~loops[s][c].quit /\ loops[s][c].runs
    BY <1>2 DEF LifeInv, LoopPlaces
  <2>3. \A s \in Sessions, c \in Channels : s > session => loops[s][c] = NoLoop
    BY <2>2 DEF LifeInv, GoodLoop
  <2>4. ~NoLoop.runs /\ ~NoLoop.quit /\ Fresh(NoLoop) /\ "detection" \in Channels /\ "data" \in Channels
    BY ChannelNames DEF NoLoop, Fresh
  <2>5. \A s \in Sessions : s < session' => s = session' - 1 \/ s < session
    BY <1>2, <2>1
  <2>6. \A s \in Sessions : s >= session' => s > session
    BY <1>2, <2>1
  <2>7. ASSUME NEW s \in Sessions, NEW c \in Channels
        PROVE  /\ s > session' => ~loops'[s][c].runs
               /\ s < session' /\ loops'[s][c].runs =>
                    s = session' - 1 /\ app' = "threads" /\ c \in Rest(todo')
               /\ s < session' /\ loops'[s]["detection"].runs =>
                    loops'[s]["data"].runs /\ ~loops'[s]["data"].quit
               /\ s = session' => /\ ~loops'[s][c].quit
                                  /\ loops'[s][c].runs \/ (app' = "threads" /\ c \in Rest(todo'))
                                  /\ app' = "threads" => Fresh(loops'[s][c])
    <3>1. CASE s > session
      <4>1. loops'[s][c] = NoLoop /\ ~(s < session')
        BY <1>2, <2>1, <2>3, <3>1
      <4> QED
        BY <1>1, <1>2, <2>4, <4>1
    <3>2. CASE s = session
      <4>1. s < session' /\ s = session' - 1
        BY <1>2, <2>1, <3>2
      <4> QED
        BY <1>1, <1>2, <2>2, <2>4, <3>2, <4>1
    <3>3. CASE s < session
      <4>1. s < session'
        BY <1>2, <2>1, <3>3
      <4> QED
        BY <1>2, <2>2, <2>4, <3>3, <4>1
    <3> QED
      BY <2>1, <3>1, <3>2, <3>3
  <2> HIDE DEF Fresh
  <2> QED
    BY <2>7 DEF LoopPlaces
<1>4. session' \in 0..MaxSessions /\ session' \in Sessions
  BY <1>2 DEF Sessions
<1> QED
  BY <1>1, <1>2, <1>3, <1>4 DEF LifeInv, Places

(* An IO thread of the session before is told to quit, or has ended and is replaced. *)
LEMMA ThreadsKeeps ==
  ASSUME LifeInv, QuitThread \/ CreateIOThread
  PROVE  LifeInv'
<1>0. PICK k \in Sessions, c \in Channels :
        /\ k = session /\ c = Head(todo) /\ todo # << >> /\ app = "threads"
  BY TodoNext DEF LifeInv, QuitThread, CreateIOThread
<1>1. CASE QuitThread
  <2>1. PICK s \in Older(c) : loops' = [loops EXCEPT ![s][c].quit = TRUE]
    BY <1>0, <1>1 DEF QuitThread
  <2>2. s \in Sessions /\ s # session /\ loops[s][c].runs
    BY <1>0 DEF Older, Sessions
  <2>p. PICK l : l = loops[s][c]
    OBVIOUS
  <2>a. PICK after : after = [l EXCEPT !.quit = TRUE]
    OBVIOUS
  <2>3. l \in Loops /\ GoodLoop(s, l, fds) /\ l.runs
    BY <2>2, <2>p DEF LifeInv
  <2>4. /\ after \in Loops /\ after.runs = l.runs /\ after.quit = TRUE /\ after.tasks = l.tasks
        /\ after.batch = l.batch /\ after.polled = l.polled /\ after.ready = l.ready
    BY <2>3, <2>a DEF Loops
  <2>5. loops' = [loops EXCEPT ![s][c] = after] /\ after \in Loops
    BY <2>1, <2>2, <2>4, <2>p, <2>a DEF LifeInv
  <2>6. /\ loops' \in [Sessions -> [Channels -> Loops]]
        /\ \A x \in Sessions, y \in Channels :
             loops'[x][y] = IF x = s /\ y = c THEN after ELSE loops[x][y]
    <3>1. loops \in [Sessions -> [Channels -> Loops]]
      BY DEF LifeInv
    <3> QED
      BY <2>2, <2>5, <3>1
  <2>7. GoodLoop(s, after, fds)
    BY <2>3, <2>4 DEF GoodLoop
  <2>8. /\ UNCHANGED <<app, todo, session, fds, channel, sockets, stop, detector, deleter, ended>>
        /\ UNCHANGED <<crashed, found, dirty, late>>
    BY <1>1 DEF QuitThread, history
  <2>9. \A x \in Sessions, y \in Channels : GoodLoop(x, loops'[x][y], fds')
    BY <2>6, <2>7, <2>8 DEF LifeInv
  <2>10. \A x \in Sessions, y \in Channels :
           /\ loops'[x][y].runs = loops[x][y].runs
           /\ x = session => loops'[x][y] = loops[x][y]
           /\ ~(x = s /\ y = c) => loops'[x][y] = loops[x][y]
    BY <2>2, <2>4, <2>6, <2>p
  <2>11. c = "detection" \/ ~loops[s]["detection"].runs
    <3>1. c # "detection" => "detection" \notin Rest(todo)
      <4>1. todo = <<"data">> \/ todo = <<"detection", "data">>
        BY <1>0 DEF LifeInv, Todos
      <4>2. Head(<<"detection", "data">>) = "detection" /\ Rest(<<"data">>) = {"data"}
        BY DEF Rest
      <4> QED
        BY <1>0, <4>1, <4>2
    <3>2. s < session
      BY <1>0 DEF Older, Sessions, LifeInv
    <3>3. \A x \in Sessions, y \in Channels : x < session /\ loops[x][y].runs => y \in Rest(todo)
      BY DEF LifeInv, LoopPlaces
    <3>4. "detection" \in Channels
      BY ChannelNames
    <3> QED
      BY <2>2, <3>1, <3>2, <3>3, <3>4
  <2>12. LoopPlaces'
    <3>1. "detection" \in Channels /\ "data" \in Channels
      BY ChannelNames
    <3>2. ASSUME NEW x \in Sessions
          PROVE  x < session /\ loops'[x]["detection"].runs =>
                   loops'[x]["data"].runs /\ ~loops'[x]["data"].quit
      <4>1. x < session /\ loops[x]["detection"].runs => loops[x]["data"].runs /\ ~loops[x]["data"].quit
        BY <3>1 DEF LifeInv, LoopPlaces
      <4>2. loops'[x]["detection"].runs => ~(x = s /\ c = "data")
        BY <2>10, <2>11, <3>1
      <4> QED
        BY <2>10, <3>1, <4>1, <4>2
    <3> QED
      BY <2>8, <2>10, <3>2 DEF LifeInv, LoopPlaces
  <2> QED
    BY <2>6, <2>8, <2>9, <2>12 DEF LifeInv
<1>2. CASE CreateIOThread
  <2>p. PICK l : l = loops[k][c]
    OBVIOUS
  <2>a. PICK after : after = [l EXCEPT !.runs = TRUE]
    OBVIOUS
  <2>3. l \in Loops /\ GoodLoop(k, l, fds) /\ ~l.quit /\ Fresh(l)
    BY <1>0, <2>p DEF LifeInv, LoopPlaces
  <2>4. /\ after \in Loops /\ after.runs = TRUE /\ after.quit = l.quit /\ after.tasks = l.tasks
        /\ after.batch = l.batch /\ after.polled = l.polled /\ after.ready = l.ready
        /\ after.adds = l.adds
    BY <2>3, <2>a DEF Loops
  <2>n. Fresh(after)
    BY <2>3, <2>4 DEF Fresh
  <2>5. loops' = [loops EXCEPT ![k][c] = after] /\ after \in Loops
    BY <1>0, <1>2, <2>4, <2>p, <2>a DEF LifeInv, CreateIOThread
  <2>6. /\ loops' \in [Sessions -> [Channels -> Loops]]
        /\ \A x \in Sessions, y \in Channels :
             loops'[x][y] = IF x = k /\ y = c THEN after ELSE loops[x][y]
    BY <2>5, OneLoop
  <2>7. GoodLoop(k, after, fds)
    BY <2>3, <2>4 DEF GoodLoop
  <2>8. /\ Older(c) = {}
        /\ UNCHANGED <<session, fds, channel, sockets, stop, detector, deleter, ended, crashed>>
        /\ UNCHANGED <<found, dirty, late>>
    BY <1>0, <1>2 DEF CreateIOThread, Joined, history
  <2>9. \A x \in Sessions, y \in Channels : GoodLoop(x, loops'[x][y], fds')
    BY <2>6, <2>7, <2>8 DEF LifeInv
  <2>10. \A x \in Sessions : x < session => ~loops[x][c].runs
    BY <1>0, <2>8 DEF Older, Sessions
  <2>11. /\ todo \in Todos /\ Tail(todo) \in Todos /\ Rest(Tail(todo)) = Rest(todo) \ {c}
         /\ (Len(todo) > 1 <=> Tail(todo) # << >>) /\ Rest(todo) \subseteq Channels
    BY <1>0, TodoNext DEF LifeInv
  <2>12. /\ Order \in Todos /\ Order # << >> /\ Rest(<< >>) = {} /\ Rest(Order) = Channels
    BY ChannelNames, Z3 DEF Order, Todos, Rest
  <2>13. \/ app' = "threads" /\ todo' = Tail(todo) /\ Tail(todo) # << >>
         \/ app' = "channels" /\ todo' = Order /\ Tail(todo) = << >>
    BY <1>0, <1>2, <2>11 DEF CreateIOThread
  <2>14. app' \in Places /\ todo' \in Todos /\ todo' # << >> /\ app' \in {"threads", "channels", "removing"}
    BY <2>11, <2>12, <2>13 DEF Places
  <2>15. \A x \in Channels : x # c /\ x \in Rest(todo) => app' = "threads" /\ x \in Rest(todo')
    BY <2>11, <2>12, <2>13
  <2>16. ASSUME NEW x \in Sessions, NEW y \in Channels
         PROVE  /\ x > session => ~loops'[x][y].runs
                /\ x < session /\ loops'[x][y].runs =>
                     x = session - 1 /\ app' = "threads" /\ y \in Rest(todo')
                /\ x < session /\ loops'[x]["detection"].runs =>
                     loops'[x]["data"].runs /\ ~loops'[x]["data"].quit
                /\ x = session => /\ ~loops'[x][y].quit
                                  /\ loops'[x][y].runs \/ (app' = "threads" /\ y \in Rest(todo'))
                                  /\ Fresh(loops'[x][y])
    <3>1. /\ x > session => ~loops[x][y].runs
          /\ x < session /\ loops[x][y].runs => x = session - 1 /\ y \in Rest(todo)
          /\ x < session /\ loops[x]["detection"].runs =>
               loops[x]["data"].runs /\ ~loops[x]["data"].quit
          /\ x = session => /\ ~loops[x][y].quit
                            /\ loops[x][y].runs \/ y \in Rest(todo)
                            /\ Fresh(loops[x][y])
          /\ x \in Nat /\ session \in Nat
      BY <1>0 DEF LifeInv, LoopPlaces, Sessions
    <3>2. "detection" \in Channels /\ "data" \in Channels
      BY ChannelNames
    <3>3. x # k => /\ loops'[x][y] = loops[x][y] /\ loops'[x]["detection"] = loops[x]["detection"]
                   /\ loops'[x]["data"] = loops[x]["data"]
      BY <2>6, <3>2
    <3> HIDE DEF Fresh
    <3>4. CASE x = k /\ y = c
      BY <1>0, <2>3, <2>4, <2>n, <2>6, <3>1, <3>4
    <3>5. CASE x = k /\ y # c
      BY <1>0, <2>6, <2>15, <3>1, <3>5
    <3>6. CASE x # k
      BY <1>0, <2>10, <2>15, <3>1, <3>3, <3>6
    <3> QED
      BY <3>4, <3>5, <3>6
  <2>17. LoopPlaces'
    <3> HIDE DEF Fresh
    <3> QED
      BY <2>8, <2>16 DEF LoopPlaces
  <2> QED
    BY <1>0, <2>6, <2>8, <2>9, <2>14, <2>17 DEF LifeInv
<1> QED
  BY <1>1, <1>2

(* A socket is opened by the session that runs, and its own loop is told to add it. *)
LEMMA ChannelKeeps ==
  ASSUME LifeInv, CreateChannel
  PROVE  LifeInv'
<1>0. /\ app = "channels" /\ todo # << >> /\ todo \in Todos /\ session \in Sessions
      /\ fds \in [Fds -> 0..MaxSessions] /\ channel \in [Channels -> 0..MaxFds]
  BY DEF LifeInv, CreateChannel
<1>c. PICK c \in Channels : c = Head(todo)
  BY <1>0, TodoNext
<1>f. PICK free \in SUBSET Fds : free = {f \in Fds : fds[f] = 0} /\ free = FreeFds
  BY DEF FreeFds
<1>1. /\ UNCHANGED <<session, stop, detector, deleter, ended, crashed, found, dirty, late>>
      /\ todo' = Tail(todo) /\ app' = IF Len(todo) > 1 THEN app ELSE "thread"
      /\ \/ UNCHANGED <<fds, channel, sockets, loops>>
         \/ /\ free # {}
            /\ channel' = [channel EXCEPT ![c] = Min(free)]
            /\ fds' = [fds EXCEPT ![Min(free)] = session]
            /\ sockets' \in {sockets, sockets \cup {Min(free)}}
            /\ loops' = PostTask(session, c, [op |-> "add", fd |-> Min(free)])
  BY <1>c, <1>f DEF CreateChannel, CreateSocket, AddDelegate, NextChannel, history
<1>2. /\ Tail(todo) \in Todos /\ (Len(todo) > 1 <=> Tail(todo) # << >>)
  BY <1>0, TodoNext
<1>3. /\ app' \in Places /\ todo' \in Todos /\ app' # "threads"
      /\ todo' # << >> <=> app' \in {"threads", "channels", "removing"}
  BY <1>0, <1>1, <1>2 DEF Places
<1>4. CASE UNCHANGED <<fds, channel, sockets, loops>>
  BY <1>0, <1>1, <1>3, <1>4, LoopsUntouched DEF LifeInv
<1>5. CASE ~UNCHANGED <<fds, channel, sockets, loops>>
  <2>1. free # {} /\ free \in SUBSET Nat
    BY <1>1, <1>5 DEF Fds
  <2>m. PICK m \in Fds : m = Min(free) /\ m \in free
    BY <2>1, LeastFree
  <2>2. PICK task : task = [op |-> "add", fd |-> m]
    OBVIOUS
  <2>3. m \in 0..MaxFds /\ fds[m] = 0 /\ task \in Tasks /\ task.op = "add" /\ task.fd = m
    BY <1>f, <2>m, <2>2 DEF Tasks, Fds
  <2>4. /\ channel' = [channel EXCEPT ![c] = m]
        /\ fds' = [fds EXCEPT ![m] = session]
        /\ sockets' \in {sockets, sockets \cup {m}}
        /\ loops' = PostTask(session, c, task)
    BY <1>1, <1>5, <2>m, <2>2
  <2>5. session \in 0..MaxSessions
    BY DEF LifeInv
  <2>6. /\ fds' \in [Fds -> 0..MaxSessions] /\ channel' \in [Channels -> 0..MaxFds]
        /\ \A f \in Fds : fds'[f] = fds[f] \/ fds'[f] = session
        /\ fds'[m] = session /\ sockets' \subseteq Fds
    BY <1>0, <2>3, <2>4, <2>5 DEF LifeInv
  <2> HIDE DEF Tasks
  <2> QED
    BY <1>0, <1>1, <1>3, <2>3, <2>4, <2>6, PostKeeps
<1> QED
  BY <1>4, <1>5

(* The loops of the session are told to remove its sockets. *)
LEMMA RemoveKeeps ==
  ASSUME LifeInv, RemoveDelegate
  PROVE  LifeInv'
<1>0. /\ app = "removing" /\ todo # << >> /\ todo \in Todos
      /\ channel \in [Channels -> 0..MaxFds] /\ fds \in [Fds -> 0..MaxSessions] /\ sockets \subseteq Fds
  BY DEF LifeInv, RemoveDelegate
<1>c. PICK c \in Channels : c = Head(todo)
  BY <1>0, TodoNext
<1>1. PICK task : task = [op |-> "remove", fd |-> channel[c]]
  OBVIOUS
<1>2. task \in Tasks /\ task.op # "add"
  BY <1>0, <1>1 DEF Tasks
<1>3. /\ loops' = PostTask(session, c, task)
      /\ todo' = Tail(todo) /\ app' = IF Len(todo) > 1 THEN app ELSE "closing"
      /\ UNCHANGED <<session, fds, channel, sockets, stop, detector, deleter, ended, crashed>>
      /\ UNCHANGED <<found, dirty, late>>
  BY <1>c, <1>1 DEF RemoveDelegate, NextChannel, history
<1>4. /\ Tail(todo) \in Todos /\ (Len(todo) > 1 <=> Tail(todo) # << >>)
  BY <1>0, TodoNext
<1>5. /\ app' \in Places /\ todo' \in Todos /\ app' # "threads"
      /\ todo' # << >> <=> app' \in {"threads", "channels", "removing"}
  BY <1>0, <1>3, <1>4 DEF Places
<1> QED
  BY <1>0, <1>2, <1>3, <1>5, PostKeeps

(* The thread of the search comes to a lidar, or to the end of it. *)
LEMMA LidarKeeps ==
  ASSUME LifeInv, NEW s \in Sessions, NEW to \in {"nothing", "data", "rest"}, NEW now \in 0..MaxFds,
         loops[s]["detection"].runs, ~Fresh(loops[s]["detection"]),
         now \in {0, loops[s]["detection"].ready},
         loops' = [loops EXCEPT ![s]["detection"] =
                     [loops[s]["detection"] EXCEPT !.ready = now, !.adds = to]],
         UNCHANGED <<app, todo, session, fds, channel, sockets, stop, detector, deleter, ended, dirty>>,
         crashed' \in BOOLEAN, late' \in BOOLEAN, found' \in 0..MaxFound
  PROVE  LifeInv'
<1>p. PICK l : l = loops[s]["detection"]
  OBVIOUS
<1>a. PICK after : after = [l EXCEPT !.ready = now, !.adds = to]
  OBVIOUS
<1>1. l \in Loops /\ GoodLoop(s, l, fds) /\ l.runs /\ "detection" \in Channels
  BY <1>p, ChannelNames DEF LifeInv
<1>2. /\ after \in Loops /\ after.runs /\ after.quit = l.quit /\ after.tasks = l.tasks
      /\ after.batch = l.batch /\ after.polled = l.polled /\ after.ready = now
  BY <1>1, <1>a DEF Loops
<1>3. GoodLoop(s, after, fds)
  BY <1>1, <1>2, <1>p DEF GoodLoop
<1>4. loops' = [loops EXCEPT ![s]["detection"] = after]
  BY <1>p, <1>a
<1> QED
  BY <1>1, <1>2, <1>3, <1>4, <1>p, OneLoopKeeps

(* It opens a socket for one. The loops that still run are all of its session, or they *)
(* were told nothing yet.                                                              *)
LEMMA AddKeeps ==
  ASSUME LifeInv, NEW s \in Sessions, AddChannel(s), ~UNCHANGED <<fds, channel, sockets, late>>
  PROVE  LifeInv'
<1>f. PICK free \in SUBSET Fds : free = {f \in Fds : fds[f] = 0} /\ free = FreeFds
  BY DEF FreeFds
<1>1. /\ loops[s]["detection"].adds = "data" /\ free # {}
      /\ channel' = [channel EXCEPT !["data"] = Min(free)]
      /\ fds' = [fds EXCEPT ![Min(free)] = s]
      /\ sockets' = sockets \cup {Min(free)}
      /\ loops' = [[loops EXCEPT ![s]["detection"].adds = "rest"]
                     EXCEPT ![s]["data"].tasks = Append(@, [op |-> "add", fd |-> Min(free)])]
      /\ UNCHANGED <<app, todo, session, stop, detector, deleter, ended, found, crashed, dirty>>
  BY <1>f DEF AddChannel, CreateSocket
<1>l. late' \in BOOLEAN
  <2>1. late' \in BOOLEAN
    BY Zenon DEF AddChannel, LifeInv
  <2> QED
    BY <2>1
<1>2. free # {} /\ free \in SUBSET Nat
  BY <1>1 DEF Fds
<1>m. PICK m \in Fds : m = Min(free) /\ m \in free
  BY <1>2, LeastFree
<1>t. PICK task : task = [op |-> "add", fd |-> m]
  OBVIOUS
<1>3. /\ fds[m] = 0 /\ m \in 0..MaxFds /\ s \in 0..MaxSessions
      /\ task \in Tasks /\ task.op = "add" /\ task.fd = m
  BY <1>f, <1>m, <1>t DEF Tasks, Fds, Sessions
<1>c. "detection" \in Channels /\ "data" \in Channels
  BY ChannelNames
<1>p. PICK l, d : l = loops[s]["detection"] /\ d = loops[s]["data"]
  OBVIOUS
<1>4. l \in Loops /\ d \in Loops /\ GoodLoop(s, l, fds) /\ GoodLoop(s, d, fds)
  BY <1>p, <1>c DEF LifeInv
<1>5. l.runs /\ ~Fresh(l)
  BY <1>1, <1>4, <1>p DEF GoodLoop, NoLoop, Fresh
<1>6. s <= session /\ session \in Nat /\ s \in Nat
  BY <1>5, <1>c, <1>p DEF LifeInv, LoopPlaces, Sessions
<1>7. s = session => app # "threads"
  BY <1>5, <1>c, <1>p DEF LifeInv, LoopPlaces
<1>8. d.runs
  BY <1>5, <1>6, <1>7, <1>c, <1>p DEF LifeInv, LoopPlaces
<1>a. PICK la, da : /\ la = [l EXCEPT !.adds = "rest"]
                    /\ da = [d EXCEPT !.tasks = Append(d.tasks, task)]
  OBVIOUS
<1>9. /\ la \in Loops /\ la.runs /\ la.quit = l.quit /\ la.tasks = l.tasks
      /\ la.batch = l.batch /\ la.polled = l.polled /\ la.ready = l.ready
  BY <1>4, <1>5, <1>a DEF Loops
<1>10. /\ d.tasks \in Seq(Tasks) /\ Append(d.tasks, task) \in Seq(Tasks)
  <2>1. d.tasks \in Seq(Tasks)
    BY <1>4 DEF Loops
  <2> QED
    BY <1>3, <2>1
<1>11. /\ da \in Loops /\ da.runs /\ da.quit = d.quit /\ da.tasks = Append(d.tasks, task)
       /\ da.batch = d.batch /\ da.polled = d.polled /\ da.ready = d.ready
  BY <1>4, <1>8, <1>10, <1>a DEF Loops
<1>12. loops' = [loops EXCEPT ![s] = [loops[s] EXCEPT !["detection"] = la, !["data"] = da]]
  <2>1. loops \in [Sessions -> [Channels -> Loops]]
    BY DEF LifeInv
  <2> QED
    BY <1>1, <1>c, <1>m, <1>t, <1>p, <1>a, <2>1
<1>13. /\ loops' \in [Sessions -> [Channels -> Loops]]
       /\ loops'[s]["detection"] = la /\ loops'[s]["data"] = da
       /\ \A x \in Sessions : x # s => loops'[x] = loops[x]
  <2>1. loops \in [Sessions -> [Channels -> Loops]]
    BY DEF LifeInv
  <2>2. la \in Loops /\ da \in Loops
    BY <1>9, <1>11
  <2> QED
    BY <1>12, <1>c, <2>1, <2>2
<1>14. \A f \in Fds : fds'[f] = fds[f] \/ fds'[f] = 0 \/ fds'[f] = s
  BY <1>1, <1>m DEF LifeInv
<1>15. /\ fds' \in [Fds -> 0..MaxSessions] /\ fds'[m] = s /\ channel' \in [Channels -> 0..MaxFds]
       /\ sockets' \subseteq Fds
  BY <1>1, <1>3, <1>m DEF LifeInv
<1>16. GoodLoop(s, l, fds') /\ GoodLoop(s, d, fds')
  BY <1>4, <1>14, GoodKept
<1>17. GoodLoop(s, la, fds')
  BY <1>5, <1>9, <1>16 DEF GoodLoop
<1>18. GoodLoop(s, da, fds')
  <2>1. \A i \in 1..Len(da.tasks) :
          (i \in 1..Len(d.tasks) /\ da.tasks[i] = d.tasks[i]) \/ da.tasks[i] = task
    BY <1>10, <1>11
  <2> QED
    BY <1>3, <1>8, <1>11, <1>15, <1>16, <2>1 DEF GoodLoop
<1>19. ASSUME NEW x \in Sessions, NEW y \in Channels
       PROVE  GoodLoop(x, loops'[x][y], fds')
  <2>1. CASE x = s
    BY <1>13, <1>17, <1>18, <2>1, ChannelNames
  <2>2. CASE x # s
    <3>1. loops'[x][y] = loops[x][y] /\ GoodLoop(x, loops[x][y], fds) /\ loops[x][y] \in Loops
      BY <1>13, <2>2 DEF LifeInv
    <3>2. ~loops[x][y].runs => loops[x][y] = NoLoop
      BY <3>1 DEF GoodLoop
    <3>3. x \in Nat
      BY DEF Sessions
    <3>4. CASE s = session
      <4>1. ~loops[x][y].runs
        BY <1>6, <1>7, <2>2, <3>3, <3>4 DEF LifeInv, LoopPlaces
      <4> QED
        BY <3>1, <3>2, <4>1, GoodNone
    <3>5. CASE s < session
      <4>1. s = session - 1 /\ app = "threads"
        BY <1>5, <1>c, <1>p, <3>5 DEF LifeInv, LoopPlaces
      <4>2. CASE x = session
        <5>1. Fresh(loops[x][y])
          BY <4>1, <4>2 DEF LifeInv, LoopPlaces
        <5> QED
          BY <3>1, <3>2, <5>1, FreshGood
      <4>3. CASE x # session
        <5>1. ~loops[x][y].runs
          BY <1>6, <2>2, <3>3, <4>1, <4>3 DEF LifeInv, LoopPlaces
        <5> QED
          BY <3>1, <3>2, <5>1, GoodNone
      <4> QED
        BY <4>2, <4>3
    <3> QED
      BY <1>6, <3>4, <3>5
  <2> QED
    BY <2>1, <2>2
<1>20. LoopPlaces'
  <2>1. \A x \in Sessions, y \in Channels :
          /\ loops'[x][y].runs = loops[x][y].runs /\ loops'[x][y].quit = loops[x][y].quit
          /\ x # s => loops'[x][y] = loops[x][y]
    <3>1. l.runs /\ la.runs /\ d.runs /\ da.runs /\ l.runs \in BOOLEAN /\ la.runs \in BOOLEAN
          /\ d.runs \in BOOLEAN /\ da.runs \in BOOLEAN
      BY <1>4, <1>5, <1>8, <1>9, <1>11 DEF Loops
    <3> QED
      BY <1>9, <1>11, <1>13, <1>p, <3>1, ChannelNames
  <2>2. \A x \in Sessions, y \in Channels :
          x = session /\ app = "threads" => Fresh(loops'[x][y])
    BY <1>7, <2>1 DEF LifeInv, LoopPlaces
  <2> HIDE DEF Fresh
  <2>3. "detection" \in Channels /\ "data" \in Channels
    BY ChannelNames
  <2>4. ASSUME NEW x \in Sessions, NEW y \in Channels
        PROVE  /\ x > session => ~loops'[x][y].runs
               /\ x < session /\ loops'[x][y].runs => x = session - 1 /\ app = "threads" /\ y \in Rest(todo)
               /\ x < session /\ loops'[x]["detection"].runs => loops'[x]["data"].runs /\ ~loops'[x]["data"].quit
               /\ x = session => /\ ~loops'[x][y].quit
                                 /\ loops'[x][y].runs \/ (app = "threads" /\ y \in Rest(todo))
                                 /\ app = "threads" => Fresh(loops'[x][y])
    <3>1. /\ x > session => ~loops[x][y].runs
          /\ x < session /\ loops[x][y].runs => x = session - 1 /\ app = "threads" /\ y \in Rest(todo)
          /\ x < session /\ loops[x]["detection"].runs => loops[x]["data"].runs /\ ~loops[x]["data"].quit
          /\ x = session => /\ ~loops[x][y].quit
                            /\ loops[x][y].runs \/ (app = "threads" /\ y \in Rest(todo))
      BY DEF LifeInv, LoopPlaces
    <3>2. /\ loops'[x][y].runs = loops[x][y].runs /\ loops'[x][y].quit = loops[x][y].quit
          /\ loops'[x]["detection"].runs = loops[x]["detection"].runs
          /\ loops'[x]["data"].runs = loops[x]["data"].runs
          /\ loops'[x]["data"].quit = loops[x]["data"].quit
      BY <2>1, <2>3
    <3> QED
      BY <2>2, <3>1, <3>2
  <2>5. app' = app /\ session' = session /\ todo' = todo
    BY <1>1
  <2> QED
    BY <2>4, <2>5 DEF LoopPlaces
<1> QED
  BY <1>1, <1>l, <1>13, <1>15, <1>19, <1>20 DEF LifeInv

(* The thread of the search opens channels for a lidar. *)
LEMMA FindKeeps ==
  ASSUME LifeInv, NEW s \in Sessions, FindLidar(s) \/ AddChannel(s) \/ LidarAdded(s)
  PROVE  LifeInv'
<1>p. PICK l : l = loops[s]["detection"]
  OBVIOUS
<1>1. /\ l \in Loops /\ GoodLoop(s, l, fds) /\ "detection" \in Channels
      /\ l.ready \in 0..MaxFds /\ 0 \in 0..MaxFds
      /\ crashed \in BOOLEAN /\ late \in BOOLEAN /\ found \in 0..MaxFound
      /\ loops \in [Sessions -> [Channels -> Loops]]
  BY <1>p, ChannelNames DEF LifeInv, Loops
<1>2. CASE FindLidar(s)
  <2>1. /\ l.runs /\ l.ready # 0 /\ found < MaxFound /\ found' = found + 1
        /\ loops' = [loops EXCEPT ![s]["detection"] = [l EXCEPT !.ready = 0, !.adds = "data"]]
        /\ UNCHANGED <<app, todo, session, fds, channel, sockets, stop, detector, deleter, ended, dirty>>
        /\ UNCHANGED <<crashed, late>>
    BY <1>2, <1>p DEF FindLidar
  <2>2. ~Fresh(l) /\ found' \in 0..MaxFound
    BY <1>1, <2>1 DEF Fresh
  <2> QED
    BY <1>1, <1>p, <2>1, <2>2, LidarKeeps
<1>3. CASE AddChannel(s)
  <2>1. CASE ~UNCHANGED <<fds, channel, sockets, late>>
    BY <1>3, <2>1, AddKeeps
  <2>2. CASE UNCHANGED <<fds, channel, sockets, late>>
    <3>1. /\ l.adds = "data"
          /\ UNCHANGED <<app, todo, session, stop, detector, deleter, ended, found, crashed, dirty>>
      BY <1>3, <1>p DEF AddChannel
    <3>2. l.runs /\ ~Fresh(l)
      BY <1>1, <3>1 DEF GoodLoop, NoLoop, Fresh
    <3>3. PICK to \in {"nothing", "rest"} : loops' = [loops EXCEPT ![s]["detection"].adds = to]
      <4>f. PICK free \in SUBSET Fds : free = {f \in Fds : fds[f] = 0} /\ free = FreeFds
        BY DEF FreeFds
      <4>1. CASE channel["data"] = 0 /\ free # {} /\ fds' = [fds EXCEPT ![Min(free)] = s]
        <5>1. free \in SUBSET Nat
          BY DEF Fds
        <5>2. PICK m \in Fds : m = Min(free) /\ m \in free
          BY <4>1, <5>1, LeastFree
        <5>3. fds[m] = 0 /\ fds'[m] = s /\ s # 0
          BY <4>f, <4>1, <5>2 DEF LifeInv, Sessions
        <5> QED
          BY <2>2, <5>3
      <4>2. CASE ~(channel["data"] = 0 /\ free # {} /\ fds' = [fds EXCEPT ![Min(free)] = s])
        BY <1>3, <1>p, <3>1, <4>f, <4>2 DEF AddChannel, CreateSocket
      <4> QED
        BY <4>1, <4>2
    <3>4. loops' = [loops EXCEPT ![s]["detection"] = [l EXCEPT !.ready = l.ready, !.adds = to]]
      <4>1. [l EXCEPT !.ready = l.ready, !.adds = to] = [l EXCEPT !.adds = to]
        BY <1>1 DEF Loops
      <4> QED
        BY <1>1, <1>p, <3>3, <4>1
    <3> QED
      BY <1>1, <1>p, <2>2, <3>1, <3>2, <3>4, LidarKeeps
  <2> QED
    BY <2>1, <2>2
<1>4. CASE LidarAdded(s)
  <2>1. /\ l.adds = "rest" /\ loops' = [loops EXCEPT ![s]["detection"].adds = "nothing"]
        /\ UNCHANGED <<app, todo, session, fds, channel, sockets, stop, detector, deleter, ended, dirty>>
        /\ UNCHANGED found
    BY <1>4, <1>p DEF LidarAdded
  <2>2. l.runs /\ ~Fresh(l)
    BY <1>1, <2>1 DEF GoodLoop, NoLoop, Fresh
  <2>3. loops' = [loops EXCEPT ![s]["detection"] = [l EXCEPT !.ready = l.ready, !.adds = "nothing"]]
    <3>1. [l EXCEPT !.ready = l.ready, !.adds = "nothing"] = [l EXCEPT !.adds = "nothing"]
      BY <1>1 DEF Loops
    <3> QED
      BY <1>1, <1>p, <2>1, <3>1
  <2>4. late' \in BOOLEAN /\ crashed' \in BOOLEAN
    BY <1>1, <1>4, Zenon DEF LidarAdded
  <2> QED
    BY <1>1, <1>p, <2>1, <2>2, <2>3, <2>4, LidarKeeps
<1> QED
  BY <1>2, <1>3, <1>4

(* Every step of the threads leaves every loop good. *)
LEMMA LifeStep == LifeInv /\ [LifeNext]_lifeVars => LifeInv'
<1> SUFFICES ASSUME LifeInv, [LifeNext]_lifeVars PROVE LifeInv'
  OBVIOUS
<1>t. /\ fds \in [Fds -> 0..MaxSessions] /\ channel \in [Channels -> 0..MaxFds]
      /\ app \in Places /\ todo \in Todos
      /\ todo # << >> <=> app \in {"threads", "channels", "removing"}
      /\ detector \in {"none", "new", "runs", "ended"}
      /\ stop \in BOOLEAN /\ deleter \in BOOLEAN /\ ended \in BOOLEAN /\ crashed \in BOOLEAN
      /\ dirty \in BOOLEAN /\ late \in BOOLEAN /\ sockets \subseteq Fds
  BY DEF LifeInv
<1>o. << >> \in Todos /\ Order \in Todos /\ Order # << >>
  BY DEF Todos, Order
<1>1. CASE InitLogs
  BY <1>1, InitLogsKeeps
<1>2. CASE QuitThread \/ CreateIOThread
  BY <1>2, ThreadsKeeps
<1>3. CASE CreateChannel
  BY <1>3, ChannelKeeps
<1>4. CASE InitFails
  <2>1. /\ app = "channels" /\ app' = "out" /\ todo' = << >> /\ dirty' = TRUE
        /\ UNCHANGED <<session, fds, channel, sockets, loops, stop, detector, deleter, ended, found, crashed, late>>
    BY <1>4 DEF InitFails
  <2> QED
    BY <1>t, <1>o, <2>1, LoopsUntouched DEF Places
<1>5. CASE StartDetector
  <2>1. /\ app = "thread" /\ detector' = "new" /\ app' = "flag"
        /\ UNCHANGED <<todo, session, fds, channel, sockets, loops, stop, deleter, ended, crashed, found, dirty, late>>
    BY <1>5 DEF StartDetector, history
  <2> QED
    BY <1>t, <2>1, LoopsUntouched DEF Places
<1>6. CASE ClearStop
  <2>1. /\ app = "flag" /\ stop' = FALSE /\ app' = "in"
        /\ UNCHANGED <<todo, session, fds, channel, sockets, loops, detector, deleter, ended, crashed, found, dirty, late>>
    BY <1>6 DEF ClearStop, history
  <2> QED
    BY <1>t, <2>1, LoopsUntouched DEF Places
<1>7. CASE DestoryLogs
  <2>1. /\ app = "in" /\ deleter' \in BOOLEAN /\ ended' = TRUE /\ app' = "removing" /\ todo' = Order
        /\ UNCHANGED <<session, fds, channel, sockets, loops, stop, detector, crashed, found, dirty, late>>
    BY <1>7 DEF DestoryLogs, history
  <2> QED
    BY <1>t, <1>o, <2>1, LoopsUntouched DEF Places
<1>8. CASE RemoveDelegate
  BY <1>8, RemoveKeeps
<1>9. CASE CloseSockets
  <2>1. /\ app = "closing" /\ stop' = TRUE /\ app' = "joining"
        /\ fds' = [f \in Fds |-> IF f \in sockets THEN 0 ELSE fds[f]] /\ sockets' = {}
        /\ UNCHANGED <<todo, session, channel, loops, detector, deleter, ended, crashed, found, dirty, late>>
    BY <1>9 DEF CloseSockets, history
  <2>2. fds' \in [Fds -> 0..MaxSessions] /\ \A f \in Fds : fds'[f] = fds[f] \/ fds'[f] = 0
    BY <1>t, <2>1
  <2> QED
    BY <1>t, <2>1, <2>2, LoopsUntouched DEF Places
<1>10. CASE JoinDetector
  <2>1. /\ app = "joining" /\ detector' = "none" /\ app' = "out" /\ dirty' = FALSE /\ late' = FALSE
        /\ fds' = [fds EXCEPT ![channel["detection"]] = 0]
        /\ channel' = [c \in Channels |-> 0]
        /\ UNCHANGED <<todo, session, sockets, loops, stop, deleter, ended, found, crashed>>
    BY <1>10 DEF JoinDetector, ChannelsCleared
  <2>2. /\ fds' \in [Fds -> 0..MaxSessions] /\ \A f \in Fds : fds'[f] = fds[f] \/ fds'[f] = 0
        /\ channel' \in [Channels -> 0..MaxFds]
    <3>1. 0 \in 0..MaxFds /\ 0 \in 0..MaxSessions
      OBVIOUS
    <3>2. PICK x : x = channel["detection"]
      OBVIOUS
    <3>3. fds' = [fds EXCEPT ![x] = 0]
      BY <2>1, <3>2
    <3>4. fds' \in [Fds -> 0..MaxSessions] /\ \A f \in Fds : fds'[f] = fds[f] \/ fds'[f] = 0
      BY <1>t, <3>1, <3>3
    <3> QED
      BY <2>1, <3>1, <3>4
  <2> QED
    BY <1>t, <2>1, <2>2, LoopsUntouched DEF Places
<1>11. CASE DetectionLidars
  <2>1. /\ detector' \in {"none", "new", "runs", "ended"}
        /\ UNCHANGED <<app, todo, session, fds, channel, sockets, loops, stop, deleter, ended, crashed, found, dirty, late>>
    BY <1>11 DEF DetectionLidars, history
  <2> QED
    BY <1>t, <2>1, LoopsUntouched
<1>12. CASE \E s \in Sessions, c \in Channels :
              Poll(s, c) \/ Handle(s, c) \/ RunTasks(s, c) \/ EndThread(s, c)
  BY <1>12, ThreadsStep
<1>13. CASE \E s \in Sessions : FindLidar(s) \/ AddChannel(s) \/ LidarAdded(s)
  BY <1>13, FindKeeps
<1>14. CASE UNCHANGED lifeVars
  BY <1>14 DEF lifeVars, history, LifeInv, LoopPlaces, GoodLoop
<1> QED
  BY <1>1, <1>2, <1>3, <1>4, <1>5, <1>6, <1>7, <1>8, <1>9, <1>10, <1>11, <1>12, <1>13, <1>14 DEF LifeNext

(* What holds of the thread of the old logs and of the search until the first session *)
(* has been ended, or an Init has failed.                                             *)
FirstInv ==
  /\ crashed => app \in {"threads", "out"} /\ (dirty \/ late \/ session > 2)
  /\ session = 0 => ~deleter /\ ~ended /\ ~stop /\ detector # "ended" /\ ~crashed
  /\ session = 1 /\ app \in {"threads", "channels", "thread", "flag", "in"} =>
       ~ended /\ ~stop /\ detector # "ended"
  /\ session = 1 /\ ~dirty /\ app \in {"out", "removing", "closing", "joining"} => ~deleter
  /\ session = 0 \/ (session = 1 /\ app # "out") => ~dirty

(* A thread of the old logs is replaced only after an Init failed, or in a third session, *)
(* and the thread of the search dies only at a lidar of a session that is over.           *)
LEMMA FirstStep == LifeInv /\ FirstInv /\ [LifeNext]_lifeVars => FirstInv'
<1> SUFFICES ASSUME LifeInv, FirstInv, [LifeNext]_lifeVars PROVE FirstInv'
  OBVIOUS
<1>t. /\ session \in Nat /\ app \in Places /\ (app # "out" => session # 0)
      /\ detector \in {"none", "new", "runs", "ended"}
      /\ todo # << >> <=> app \in {"threads", "channels", "removing"}
  BY DEF LifeInv, Sessions
<1>1. CASE InitLogs
  <2>1. /\ app = "out" /\ ~crashed /\ session' = session + 1 /\ app' = "threads"
        /\ (crashed' = deleter \/ crashed' = crashed)
        /\ UNCHANGED <<stop, detector, ended, dirty, late>>
    BY <1>1 DEF InitLogs, history
  <2>2. crashed' => dirty \/ late \/ session' > 2
    <3>1. session = 0 \/ session = 1 \/ session' > 2
      BY <1>t, <2>1
    <3>2. session \in {0, 1} => dirty \/ ~deleter
      BY <2>1 DEF FirstInv
    <3> QED
      BY <2>1, <3>1, <3>2
  <2> QED
    BY <1>t, <2>1, <2>2 DEF FirstInv
<1>2. CASE QuitThread \/ CreateIOThread
  BY <1>t, <1>2 DEF FirstInv, QuitThread, CreateIOThread, history
<1>3. CASE CreateChannel
  BY <1>t, <1>3 DEF FirstInv, CreateChannel, NextChannel, history
<1>4. CASE InitFails
  BY <1>t, <1>4 DEF FirstInv, InitFails
<1>5. CASE StartDetector
  BY <1>t, <1>5 DEF FirstInv, StartDetector, history
<1>6. CASE ClearStop
  BY <1>t, <1>6 DEF FirstInv, ClearStop, history
<1>7. CASE DestoryLogs
  BY <1>t, <1>7 DEF FirstInv, DestoryLogs, history
<1>8. CASE RemoveDelegate
  BY <1>t, <1>8 DEF FirstInv, RemoveDelegate, NextChannel, history
<1>9. CASE CloseSockets
  BY <1>t, <1>9 DEF FirstInv, CloseSockets, history
<1>10. CASE JoinDetector
  BY <1>t, <1>10 DEF FirstInv, JoinDetector
<1>11. CASE DetectionLidars
  BY <1>t, <1>11 DEF FirstInv, DetectionLidars, Places, history
<1>12. CASE \E s \in Sessions, c \in Channels :
              Poll(s, c) \/ Handle(s, c) \/ RunTasks(s, c) \/ EndThread(s, c)
  BY <1>12 DEF FirstInv, Poll, Handle, RunTasks, EndThread, LoopStep, history
<1>13. CASE \E s \in Sessions : FindLidar(s) \/ AddChannel(s) \/ LidarAdded(s)
  <2>1. PICK s \in Sessions : FindLidar(s) \/ AddChannel(s) \/ LidarAdded(s)
    BY <1>13
  <2>2. /\ UNCHANGED <<app, session, stop, detector, deleter, ended, dirty>>
        /\ late => late'
    <3>1. CASE FindLidar(s)
      BY <3>1 DEF FindLidar
    <3>2. CASE AddChannel(s)
      <4>1. UNCHANGED <<app, session, stop, detector, deleter, ended, dirty>>
        BY <3>2 DEF AddChannel
      <4>2. late => late'
        BY <3>2, Zenon DEF AddChannel
      <4> QED
        BY <4>1, <4>2, Zenon
    <3>3. CASE LidarAdded(s)
      BY <3>3 DEF LidarAdded
    <3> QED
      BY <2>1, <3>1, <3>2, <3>3
  <2>3. crashed' => crashed \/ (LidarAdded(s) /\ Outlived(s) /\ late')
    BY <2>1, Zenon DEF FindLidar, AddChannel, LidarAdded
  <2>4. LidarAdded(s) /\ Outlived(s) => app \in {"threads", "out"}
    <3>1. LidarAdded(s) => loops[s]["detection"].runs
      BY ChannelNames DEF LidarAdded, LifeInv, GoodLoop, NoLoop
    <3>2. loops[s]["detection"].runs => s = session \/ app = "threads"
      BY ChannelNames DEF LifeInv, LoopPlaces, Sessions
    <3> QED
      BY <3>1, <3>2 DEF Outlived, Configured
  <2>5. crashed' => app' \in {"threads", "out"} /\ (dirty' \/ late' \/ session' > 2)
    <3>1. CASE crashed
      BY <2>2, <3>1 DEF FirstInv
    <3>2. CASE LidarAdded(s) /\ Outlived(s) /\ late'
      BY <2>2, <2>4, <3>2
    <3> QED
      BY <2>3, <3>1, <3>2
  <2>6. ~crashed' \/ session # 0
    <3>1. session = 0 => \A x \in Sessions : ~loops[x]["detection"].runs
      BY <1>t, ChannelNames DEF LifeInv, LoopPlaces, Sessions
    <3>2. LidarAdded(s) => loops[s]["detection"].runs
      BY ChannelNames DEF LidarAdded, LifeInv, GoodLoop, NoLoop
    <3> QED
      BY <2>3, <3>1, <3>2 DEF FirstInv
  <2> QED
    BY <2>2, <2>5, <2>6 DEF FirstInv
<1>14. CASE UNCHANGED lifeVars
  BY <1>14 DEF lifeVars, history, FirstInv
<1> QED
  BY <1>1, <1>2, <1>3, <1>4, <1>5, <1>6, <1>7, <1>8, <1>9, <1>10, <1>11, <1>12, <1>13, <1>14 DEF LifeNext

(* A loop that is still at work reads no socket of a later session, and the process *)
(* dies only in the cases the property names: for any number of sessions, lidars and  *)
(* descriptors and any interleaving of the threads. See DeviceManager::Destory.       *)
THEOREM SessionsKeptApart == LifeSpec => []SessionsApart
<1>1. LifeInit => FirstInv
  BY DEF LifeInit, FirstInv
<1>2. LifeSpec => [](LifeInv /\ FirstInv)
  BY <1>1, LifeInitInv, LifeStep, FirstStep, PTL DEF LifeSpec
<1>3. ASSUME LifeInv, FirstInv PROVE SessionsApart
  <2>1. \A s \in Sessions, c \in Channels :
          /\ loops[s][c].ready \in 0..MaxFds
          /\ loops[s][c].polled \subseteq [fd : Fds, owner : Sessions]
          /\ loops[s][c].adds \in {"nothing", "data", "rest"}
          /\ loops[s][c].ready # 0 => fds[loops[s][c].ready] \in {0, s}
    <3>1. \A s \in Sessions, c \in Channels : loops[s][c] \in Loops /\ GoodLoop(s, loops[s][c], fds)
      BY <1>3 DEF LifeInv
    <3>2. \A l \in Loops : /\ l.ready \in 0..MaxFds /\ l.polled \subseteq [fd : Fds, owner : Sessions]
                          /\ l.adds \in {"nothing", "data", "rest"}
      BY DEF Loops
    <3> QED
      BY <3>1, <3>2 DEF GoodLoop
  <2>2. todo \in {Order, Tail(Order), << >>}
    <3>1. Order = <<"detection", "data">> /\ Tail(Order) = <<"data">>
      BY DEF Order
    <3> QED
      BY <1>3, <3>1 DEF LifeInv, Todos
  <2>3. LifeTypeOK
    BY <1>3, <2>1, <2>2 DEF LifeTypeOK, LifeInv, Places
  <2>4. crashed => dirty \/ late \/ session > 2
    BY <1>3 DEF FirstInv
  <2>5. app = "in" /\ session = 1 => detector # "ended"
    BY <1>3 DEF FirstInv
  <2> QED
    BY <2>1, <2>3, <2>4, <2>5 DEF SessionsApart
<1> QED
  BY <1>2, <1>3, PTL

-----------------------------------------------------------------------------
(* The log files.                                                          *)

LogPackets == {Packet(n) : n \in 0..Files * PerFile - 1}
LogNames == [at : 0..MaxTime, file : 1..Files, hidden : BOOLEAN]
Cursors == [open : BOOLEAN, file : 0..Files, trans : 0..PerFile,
            name : [at : 0..MaxTime, file : 0..Files, hidden : {TRUE}]]

LogTypes ==
  /\ next \in 0..Files * PerFile
  /\ wire \in Seq(LogPackets) /\ queue \in Seq(LogPackets) /\ batch \in Seq(LogPackets)
  /\ cur \in Cursors
  /\ DOMAIN disk \subseteq LogNames /\ \A n \in DOMAIN disk : disk[n] \in Seq(Nat)
  /\ listed \subseteq {n \in LogNames : ~n.hidden}
  /\ handler \in BOOLEAN /\ logging \in BOOLEAN
  /\ ending \in {"no", "asked", "joined", "down"}
  /\ clock \in 0..MaxTime /\ faults \in 0..MaxFaults

Rising(log) == \A i \in 1..Len(log) - 1 : log[i] <= log[i + 1]

(* The open file is the hidden one, and none of its packets comes after trans_index. *)
OpenInv ==
  /\ ending \in {"joined", "down"} => ~cur.open /\ batch = << >>
  /\ cur.open => /\ cur.name \in DOMAIN disk
                 /\ \A i \in 1..Len(disk[cur.name]) : disk[cur.name][i] <= cur.trans
  /\ ending # "down" => \A n \in DOMAIN disk : n.hidden => cur.open /\ n = cur.name
  /\ \A n \in DOMAIN disk : Rising(disk[n])

(* The packets from number k on, as many as log has. *)
From(k, log) == \A i \in 1..Len(log) : log[i] = Packet(k + i - 1)
UpTo(n) == [i \in 1..n |-> i - 1]

(* k packets were written, the last of them was number k - 1. *)
Written(k) ==
  IF k = 0 THEN ~cur.open /\ DOMAIN disk = {}
  ELSE LET p == Packet(k - 1) IN
       /\ cur.open <=> p.kind # "end"
       /\ cur.file = p.file /\ cur.trans = p.trans
       /\ cur.open => disk[cur.name] = UpTo(p.trans + 1)
       /\ \A n \in DOMAIN disk : ~n.hidden => disk[n] = UpTo(Packets + 1)

(* As long as nothing is lost, what was not written yet is in the batch, in the queue *)
(* and on the wire, in this order and without a gap.                                   *)
WholeLogs ==
  faults = 0 =>
    /\ ending # "down"
    /\ ending # "joined" =>
         \E k \in Nat :
           /\ next = k + Len(batch) + Len(queue) + Len(wire)
           /\ From(k, batch) /\ From(k + Len(batch), queue) /\ From(k + Len(batch) + Len(queue), wire)
           /\ ~handler => k + Len(batch) + Len(queue) = 0
           /\ Written(k)

LogInv == LogTypes /\ OpenInv /\ WholeLogs

(* The bounds are numbers; a file has at least its create packet and its end. *)
LEMMA PacketNumbers == PerFile \in Nat /\ PerFile >= 2 /\ Files \in Nat /\ Packets \in Nat
                       /\ MaxTime \in Nat /\ MaxFaults \in Nat /\ PerFile = Packets + 2
  BY LogAssumption DEF PerFile, LogAssumption

(* A number is a quotient times a file and a remainder. *)
LEMMA DivideNumber ==
  ASSUME NEW P \in Nat \ {0}, NEW n \in Nat
  PROVE  n = P * (n \div P) + (n % P) /\ n \div P \in Nat /\ n % P \in 0..P - 1
  OBVIOUS

(* Quotient and remainder are the only ones. *)
LEMMA DivideUnique ==
  ASSUME NEW P \in Nat \ {0}, NEW q \in Nat, NEW r \in 0..P - 1
  PROVE  (P * q + r) \div P = q /\ (P * q + r) % P = r
  OBVIOUS

(* A number below f files is in one of the f files. *)
LEMMA QuotientBelow ==
  ASSUME NEW P \in Nat \ {0}, NEW f \in Nat, NEW n \in Nat, n < f * P
  PROVE  n \div P < f
<1> DEFINE q == n \div P
           r == n % P
<1>1. n = P * q + r /\ q \in Nat /\ r \in Nat
  BY DivideNumber
<1> HIDE DEF q, r
<1> SUFFICES ASSUME q >= f PROVE FALSE
  BY <1>1 DEF q
<1>2. PICK d \in Nat : q = f + d
  <2>1. q - f \in Nat
    BY <1>1
  <2> QED
    BY <1>1, <2>1
<1>3. P * q = f * P + P * d /\ P * d >= 0
  BY <1>2
<1> QED
  BY <1>1, <1>3

(* The kind of a packet follows from its place in its file. *)
LEMMA PacketTyped ==
  ASSUME NEW p \in LogPackets
  PROVE  /\ p.file \in 1..Files /\ p.trans \in 0..PerFile - 1
         /\ p.kind = IF p.trans = 0 THEN "create" ELSE IF p.trans = PerFile - 1 THEN "end" ELSE "data"
<1>1. PICK n \in 0..Files * PerFile - 1 : p = Packet(n)
  BY DEF LogPackets
<1>2. n \in Nat /\ PerFile \in Nat \ {0} /\ Files \in Nat
  BY <1>1, PacketNumbers
<1>3. n \div PerFile \in Nat /\ n % PerFile \in 0..PerFile - 1
  BY <1>2, DivideNumber
<1>4. n \div PerFile < Files
  <2>1. n < Files * PerFile
    BY <1>1, <1>2
  <2> QED
    BY <1>2, <2>1, QuotientBelow
<1>5. p.file = n \div PerFile + 1 /\ p.trans = n % PerFile
      /\ p.kind = IF n % PerFile = 0 THEN "create" ELSE IF n % PerFile = PerFile - 1 THEN "end" ELSE "data"
  BY <1>1 DEF Packet
<1> QED
  BY <1>2, <1>3, <1>4, <1>5

(* The packet after the end of a file is the first of the next; any other follows in its file. *)
LEMMA PacketNext ==
  ASSUME NEW k \in Nat \ {0}
  PROVE  IF Packet(k).trans = 0 THEN Packet(k - 1).trans = PerFile - 1
         ELSE Packet(k - 1).trans = Packet(k).trans - 1 /\ Packet(k - 1).file = Packet(k).file
<1> DEFINE j == k - 1
           q == j \div PerFile
           r == j % PerFile
<1>1. j \in Nat /\ k = j + 1 /\ PerFile \in Nat \ {0} /\ PerFile >= 2
  BY PacketNumbers
<1> HIDE DEF j
<1>2. j = PerFile * q + r /\ q \in Nat /\ r \in 0..PerFile - 1
  BY <1>1, DivideNumber
<1>3. Packet(j).trans = r /\ Packet(j).file = q + 1
  BY DEF Packet
<1>4. Packet(k).trans = k % PerFile /\ Packet(k).file = k \div PerFile + 1
  BY DEF Packet
<1> HIDE DEF q, r
<1>5. CASE r = PerFile - 1
  <2>1. k = PerFile * (q + 1) + 0 /\ q + 1 \in Nat /\ 0 \in 0..PerFile - 1
    BY <1>1, <1>2, <1>5
  <2>2. k % PerFile = 0
    BY <1>1, <2>1, DivideUnique
  <2> QED
    BY <1>3, <1>4, <1>5, <2>2 DEF j
<1>6. CASE r # PerFile - 1
  <2>1. k = PerFile * q + (r + 1) /\ r + 1 \in 0..PerFile - 1
    BY <1>1, <1>2, <1>6
  <2>2. k % PerFile = r + 1 /\ k \div PerFile = q
    BY <1>1, <1>2, <2>1, DivideUnique
  <2>3. r + 1 # 0 /\ (r + 1) - 1 = r
    BY <1>2
  <2> QED
    BY <1>3, <1>4, <2>2, <2>3 DEF j
<1> QED
  BY <1>5, <1>6

(* The first packet of all opens a file. *)
LEMMA PacketFirst == Packet(0).trans = 0
  BY PacketNumbers DEF Packet

(* What the lidar still has to push is one of its packets. *)
LEMMA PacketIn ==
  ASSUME NEW n \in Nat, n < Files * PerFile
  PROVE  Packet(n) \in LogPackets
<1>1. n \in 0..Files * PerFile - 1
  BY PacketNumbers
<1> QED
  BY <1>1 DEF LogPackets

(* What is queued and delivered are packets. *)
LEMMA EnqueueTyped ==
  ASSUME queue \in Seq(LogPackets), handler \in BOOLEAN, NEW p \in LogPackets, Enqueue(p)
  PROVE  queue' \in Seq(LogPackets) /\ handler' \in BOOLEAN
  BY DEF Enqueue

(* What is shown instead of the open file: nothing hidden is left, and no log changes. *)
LEMMA ShownTyped ==
  ASSUME LogTypes, OpenInv, NEW d, d = Shown(disk)
  PROVE  /\ DOMAIN d \subseteq LogNames
         /\ \A n \in DOMAIN d : d[n] \in Seq(Nat) /\ Rising(d[n])
         /\ ending # "down" => \A n \in DOMAIN d : ~n.hidden
         /\ \A n \in DOMAIN d : (n \in DOMAIN disk /\ d[n] = disk[n]) \/ (cur.open /\ d[n] = disk[cur.name])
         /\ ~cur.open => d = disk
<1>1. CASE ~cur.open
  BY <1>1 DEF Shown, LogTypes, OpenInv
<1>2. CASE cur.open
  <2> DEFINE s == Seen(cur.name)
  <2>1. cur.name \in LogNames /\ cur.name \in DOMAIN disk
    BY <1>2 DEF LogTypes, OpenInv
  <2>2. s \in LogNames /\ ~s.hidden
    BY <2>1 DEF Seen, LogNames
  <2>3. d = With(Without(disk, {cur.name}), s, disk[cur.name])
    BY <1>2 DEF Shown
  <2> HIDE DEF s
  <2>4. /\ DOMAIN d = (DOMAIN disk \ {cur.name}) \cup {s}
        /\ d[s] = disk[cur.name]
        /\ \A n \in DOMAIN disk \ {cur.name} : n # s => d[n] = disk[n]
    BY <2>3 DEF With, Without
  <2>5. ending # "down" => \A n \in DOMAIN disk \ {cur.name} : ~n.hidden
    BY DEF OpenInv
  <2>6. \A n \in DOMAIN d : (n \in DOMAIN disk /\ d[n] = disk[n]) \/ d[n] = disk[cur.name]
    BY <2>4
  <2>7. \A n \in DOMAIN disk : disk[n] \in Seq(Nat) /\ Rising(disk[n])
    BY DEF LogTypes, OpenInv
  <2>8. DOMAIN d \subseteq LogNames
    BY <2>2, <2>4 DEF LogTypes
  <2> QED
    BY <1>2, <2>1, <2>2, <2>4, <2>5, <2>6, <2>7, <2>8
<1> QED
  BY <1>1, <1>2

(* ChangeHiddenFiles: nothing hidden is left, and every log is one that was there. *)
LEMMA AllShownTyped ==
  ASSUME LogTypes, NEW d, d = AllShown(disk)
  PROVE  /\ DOMAIN d \subseteq LogNames
         /\ \A n \in DOMAIN d : ~n.hidden /\ \E m \in DOMAIN disk : d[n] = disk[m]
<1>1. DOMAIN disk \subseteq LogNames
  BY DEF LogTypes
<1>2. DOMAIN d = {Seen(m) : m \in DOMAIN disk}
  BY DEF AllShown
<1>3. ASSUME NEW n \in DOMAIN d
      PROVE  n \in LogNames /\ ~n.hidden /\ \E m \in DOMAIN disk : d[n] = disk[m]
  <2>1. PICK m \in DOMAIN disk : n = Seen(m)
    BY <1>2
  <2>2. m \in LogNames
    BY <1>1
  <2>3. n \in LogNames /\ ~n.hidden
    BY <2>1, <2>2 DEF Seen, LogNames
  <2> DEFINE twin == [n EXCEPT !.hidden = TRUE]
  <2>4. d[n] = IF twin \in DOMAIN disk THEN disk[twin] ELSE disk[n]
    BY <1>2 DEF AllShown
  <2>5. m = twin \/ m = n
    BY <2>1, <2>2 DEF Seen, LogNames
  <2> HIDE DEF twin
  <2> QED
    BY <2>3, <2>4, <2>5
<1> QED
  BY <1>3

(* One more entry that is not less than the others leaves a log in order. *)
LEMMA RisingMore ==
  ASSUME NEW log \in Seq(Nat), Rising(log), NEW t \in Nat,
         \A i \in 1..Len(log) : log[i] <= t
  PROVE  /\ Append(log, t) \in Seq(Nat) /\ Rising(Append(log, t))
         /\ \A i \in 1..Len(Append(log, t)) : Append(log, t)[i] <= t
<1> DEFINE m == Append(log, t)
<1>1. /\ m \in Seq(Nat) /\ Len(m) = Len(log) + 1 /\ Len(log) \in Nat
      /\ \A i \in 1..Len(log) : m[i] = log[i]
      /\ m[Len(log) + 1] = t
  BY AppendProperties, LenProperties
<1> HIDE DEF m
<1>2. \A i \in 1..Len(m) : m[i] <= t
  BY <1>1
<1>3. ASSUME NEW i \in 1..Len(m) - 1 PROVE m[i] <= m[i + 1]
  <2>1. CASE i = Len(log)
    BY <1>1, <1>2, <2>1
  <2>2. CASE i # Len(log)
    <3>1. i \in 1..Len(log) - 1 /\ i + 1 \in 1..Len(log)
      BY <1>1, <2>2
    <3> QED
      BY <1>1, <3>1 DEF Rising
  <2> QED
    BY <2>1, <2>2
<1> QED
  BY <1>1, <1>2, <1>3 DEF Rising, m

(* A log of one packet is in order. *)
LEMMA RisingOne ==
  ASSUME NEW t \in Nat
  PROVE  <<t>> \in Seq(Nat) /\ Rising(<<t>>) /\ \A i \in 1..Len(<<t>>) : <<t>>[i] <= t
  BY DEF Rising

(* The lidar pushes, the wire delivers or fails, and time passes. *)
LEMMA LogWireStep ==
  ASSUME LogTypes, OpenInv, StartLogger \/ Push \/ Deliver \/ Fault \/ Tick
  PROVE  LogTypes' /\ OpenInv'
<1>1. /\ UNCHANGED <<batch, cur, disk, listed, ending>> /\ faults' \in 0..MaxFaults
      /\ clock' \in 0..MaxTime
  BY PacketNumbers DEF StartLogger, Push, Deliver, Fault, Tick, LogTypes
<1>2. /\ wire \in Seq(LogPackets) /\ queue \in Seq(LogPackets) /\ next \in 0..Files * PerFile
      /\ handler \in BOOLEAN /\ logging \in BOOLEAN
  BY DEF LogTypes
<1>3. /\ wire' \in Seq(LogPackets) /\ queue' \in Seq(LogPackets) /\ next' \in 0..Files * PerFile
      /\ handler' \in BOOLEAN /\ logging' \in BOOLEAN
  <2>1. CASE StartLogger \/ Tick
    BY <1>2, <2>1 DEF StartLogger, Tick
  <2>2. CASE Push
    <3> DEFINE all == Files * PerFile
    <3>1. all \in Nat
      BY PacketNumbers
    <3>2. next \in 0..all /\ next < all /\ next' = next + 1
      BY <1>2, <2>2 DEF Push
    <3>3. Packet(next) \in LogPackets
      BY <3>1, <3>2, PacketIn
    <3> HIDE DEF all
    <3>4. next' \in 0..all
      BY <3>1, <3>2
    <3> QED
      BY <1>2, <2>2, <3>3, <3>4 DEF Push, all
  <2>3. CASE Deliver
    <3>1. Head(wire) \in LogPackets /\ Tail(wire) \in Seq(LogPackets)
      BY <1>2, <2>3, HeadTailProperties DEF Deliver
    <3> QED
      BY <1>2, <2>3, <3>1, EnqueueTyped DEF Deliver
  <2>4. CASE Fault
    <3>0. UNCHANGED <<next, logging>>
      BY <2>4 DEF Fault
    <3>1. CASE wire # << >> /\ wire' = Tail(wire) /\ UNCHANGED <<handler, queue>>
      <4>1. Tail(wire) \in Seq(LogPackets)
        BY <1>2, <3>1, HeadTailProperties
      <4> QED
        BY <1>2, <3>0, <3>1, <4>1
    <3>2. CASE wire # << >> /\ Enqueue(Head(wire)) /\ UNCHANGED wire
      <4>1. Head(wire) \in LogPackets
        BY <1>2, <3>2, HeadTailProperties
      <4> QED
        BY <1>2, <3>0, <3>2, <4>1, EnqueueTyped
    <3>3. CASE Len(wire) > 1 /\ Enqueue(wire[2]) /\ wire' = <<wire[1]>> \o SubSeq(wire, 3, Len(wire))
      <4>1. Len(wire) \in Nat /\ 1 \in 1..Len(wire) /\ 2 \in 1..Len(wire)
        BY <1>2, <3>3, LenProperties
      <4>2. wire[1] \in LogPackets /\ wire[2] \in LogPackets
        BY <1>2, <4>1, ElementOfSeq
      <4>3. SubSeq(wire, 3, Len(wire)) \in Seq(LogPackets)
        BY <1>2, <4>1, SubSeqProperties
      <4> QED
        BY <1>2, <3>0, <3>3, <4>2, <4>3, EnqueueTyped
    <3> QED
      BY <2>4, <3>1, <3>2, <3>3 DEF Fault
  <2> QED
    BY <2>1, <2>2, <2>3, <2>4
<1>4. LogTypes'
  BY <1>1, <1>3 DEF LogTypes
<1>5. OpenInv'
  BY <1>1 DEF OpenInv, Rising
<1> QED
  BY <1>4, <1>5

(* The writing thread takes the queue. *)
LEMMA TakeQueueStep ==
  ASSUME LogTypes, OpenInv, TakeQueue
  PROVE  LogTypes' /\ OpenInv'
<1>1. << >> \in Seq(LogPackets)
  OBVIOUS
<1>2. LogTypes'
  BY <1>1 DEF TakeQueue, LogTypes
<1>3. OpenInv'
  BY DEF TakeQueue, OpenInv, Rising
<1> QED
  BY <1>2, <1>3

(* Files are listed and removed, and the process ends or begins. *)
LEMMA DirectoryStep ==
  ASSUME LogTypes, OpenInv, List \/ RemoveOldest \/ Destory \/ Join \/ Crash \/ Restart
  PROVE  LogTypes' /\ OpenInv'
<1>1. CASE List \/ Destory
  <2>1. VisibleNames \subseteq {n \in LogNames : ~n.hidden}
    BY DEF VisibleNames, LogTypes
  <2>2. LogTypes'
    BY <1>1, <2>1 DEF List, Destory, LogTypes
  <2>3. OpenInv'
    BY <1>1 DEF List, Destory, OpenInv, Rising
  <2> QED
    BY <2>2, <2>3
<1>2. CASE RemoveOldest
  <2>1. PICK n \in listed : /\ listed' = listed \ {n} \/ listed' = {}
                            /\ disk' = Without(disk, {n}) \/ disk' = disk
    BY <1>2 DEF RemoveOldest
  <2>2. ~n.hidden
    BY DEF LogTypes
  <2>3. /\ DOMAIN disk' \subseteq DOMAIN disk /\ \A m \in DOMAIN disk' : disk'[m] = disk[m]
        /\ \A m \in DOMAIN disk : m.hidden => m \in DOMAIN disk'
    BY <2>1, <2>2 DEF Without
  <2>4. UNCHANGED <<logging, next, wire, handler, queue, batch, cur, ending, clock, faults>>
    BY <1>2 DEF RemoveOldest
  <2>5. LogTypes'
    BY <2>1, <2>3, <2>4 DEF LogTypes
  <2>6. cur.name.hidden
    BY DEF LogTypes, Cursors
  <2>7. OpenInv'
    BY <2>3, <2>4, <2>6 DEF OpenInv, Rising
  <2> QED
    BY <2>5, <2>7
<1>3. CASE Join
  <2>1. /\ disk' = AllShown(disk) /\ cur' = [cur EXCEPT !.open = FALSE] /\ batch = << >>
        /\ ending' = "joined" /\ logging' \in BOOLEAN
        /\ UNCHANGED <<next, wire, handler, queue, batch, listed, clock, faults>>
    BY <1>3 DEF Join, StopAllLogger, LogTypes
  <2>2. /\ DOMAIN disk' \subseteq LogNames
        /\ \A n \in DOMAIN disk' : ~n.hidden /\ \E m \in DOMAIN disk : disk'[n] = disk[m]
    BY <2>1, AllShownTyped
  <2>3. cur' \in Cursors /\ ~cur'.open
    BY <2>1 DEF LogTypes, Cursors
  <2>4. \A n \in DOMAIN disk' : disk'[n] \in Seq(Nat) /\ Rising(disk'[n])
    BY <2>2 DEF LogTypes, OpenInv
  <2>5. LogTypes'
    BY <2>1, <2>2, <2>3, <2>4 DEF LogTypes
  <2>6. OpenInv'
    BY <2>1, <2>2, <2>3, <2>4 DEF OpenInv, Rising
  <2> QED
    BY <2>5, <2>6
<1>4. CASE Crash
  <2>1. NoFile \in Cursors /\ ~NoFile.open
    <3>1. FALSE \in BOOLEAN /\ 0 \in 0..Files /\ 0 \in 0..PerFile /\ 0 \in 0..MaxTime /\ TRUE \in {TRUE}
      BY PacketNumbers
    <3> QED
      BY <3>1, Zenon DEF NoFile, Cursors
  <2>2. << >> \in Seq(LogPackets) /\ FALSE \in BOOLEAN
    OBVIOUS
  <2>0. faults' \in 0..MaxFaults
    BY <1>4, PacketNumbers DEF Crash, LogTypes
  <2>3. LogTypes'
    BY <1>4, <2>0, <2>1, <2>2 DEF Crash, LogTypes
  <2>4. OpenInv'
    BY <1>4, <2>1 DEF Crash, OpenInv, Rising
  <2> QED
    BY <2>3, <2>4
<1>5. CASE Restart
  <2>1. /\ disk' = AllShown(disk) /\ ending = "down" /\ ending' = "no"
        /\ UNCHANGED <<logging, next, wire, handler, queue, batch, cur, listed, clock, faults>>
    BY <1>5 DEF Restart, Recovered
  <2>2. /\ DOMAIN disk' \subseteq LogNames
        /\ \A n \in DOMAIN disk' : ~n.hidden /\ \E m \in DOMAIN disk : disk'[n] = disk[m]
    BY <2>1, AllShownTyped
  <2>3. ~cur.open
    BY <2>1 DEF OpenInv
  <2>4. \A n \in DOMAIN disk' : disk'[n] \in Seq(Nat) /\ Rising(disk'[n])
    BY <2>2 DEF LogTypes, OpenInv
  <2>5. LogTypes'
    BY <2>1, <2>2, <2>4 DEF LogTypes
  <2>6. OpenInv'
    BY <2>1, <2>2, <2>3, <2>4 DEF OpenInv, Rising
  <2> QED
    BY <2>5, <2>6
<1> QED
  BY <1>1, <1>2, <1>3, <1>4, <1>5

(* Write takes the next packet of the batch. *)
LEMMA WriteLogStep ==
  ASSUME LogTypes, OpenInv, Write
  PROVE  LogTypes' /\ OpenInv'
<1> DEFINE p == Head(batch)
<1>1. /\ batch # << >> /\ ~Stale(p) /\ (CreateFile(p) \/ WriteFile(p) \/ StopFile(p))
      /\ batch' = Tail(batch)
      /\ UNCHANGED <<logging, next, wire, handler, queue, listed, ending, clock, faults>>
  BY DEF Write
<1>2. PICK q \in LogPackets : q = p
  BY <1>1, HeadTailProperties DEF LogTypes
<1>3. batch' \in Seq(LogPackets)
  BY <1>1, HeadTailProperties DEF LogTypes
<1> HIDE DEF p
<1>4. /\ q.file \in 1..Files /\ q.trans \in 0..PerFile - 1
      /\ q.kind = IF q.trans = 0 THEN "create" ELSE IF q.trans = PerFile - 1 THEN "end" ELSE "data"
  BY PacketTyped
<1>5. q.trans \in Nat /\ q.trans \in 0..PerFile /\ q.file \in 0..Files
  BY <1>4, PacketNumbers
<1>6. ending \in {"no", "asked"}
  BY <1>1 DEF LogTypes, OpenInv
<1>7. cur \in Cursors /\ clock \in 0..MaxTime /\ DOMAIN disk \subseteq LogNames
  BY DEF LogTypes
<1>8. /\ cur' \in Cursors /\ DOMAIN disk' \subseteq LogNames
      /\ \A n \in DOMAIN disk' : disk'[n] \in Seq(Nat) /\ Rising(disk'[n])
      /\ \A n \in DOMAIN disk' : n.hidden => cur'.open /\ n = cur'.name
      /\ cur'.open => /\ cur'.name \in DOMAIN disk'
                      /\ \A i \in 1..Len(disk'[cur'.name]) : disk'[cur'.name][i] <= cur'.trans
  <2> DEFINE d == Shown(disk)
  <2>1. /\ DOMAIN d \subseteq LogNames
        /\ \A n \in DOMAIN d : d[n] \in Seq(Nat) /\ Rising(d[n]) /\ ~n.hidden
    BY <1>6, ShownTyped
  <2>2. CASE CreateFile(q)
    <3> DEFINE name == Name(q.file, TRUE)
    <3>1. disk' = With(d, name, <<q.trans>>)
          /\ cur' = [open |-> TRUE, file |-> q.file, trans |-> q.trans, name |-> name]
      BY <2>2 DEF CreateFile, NewName
    <3>2. name \in LogNames /\ name.hidden /\ name \in [at : 0..MaxTime, file : 0..Files, hidden : {TRUE}]
      BY <1>4, <1>5, <1>7 DEF Name, LogNames
    <3> HIDE DEF name, d
    <3>3. /\ DOMAIN disk' = DOMAIN d \cup {name} /\ disk'[name] = <<q.trans>>
          /\ \A n \in DOMAIN d : n # name => disk'[n] = d[n]
      BY <3>1 DEF With
    <3>4. <<q.trans>> \in Seq(Nat) /\ Rising(<<q.trans>>) /\ \A i \in 1..Len(<<q.trans>>) : <<q.trans>>[i] <= q.trans
      BY <1>5, RisingOne
    <3>5. cur' \in Cursors /\ cur'.open /\ cur'.name = name /\ cur'.trans = q.trans
      <4>1. TRUE \in BOOLEAN
        OBVIOUS
      <4> QED
        BY <1>5, <3>1, <3>2, <4>1 DEF Cursors
    <3> QED
      BY <2>1, <3>2, <3>3, <3>4, <3>5
  <2>3. CASE StopFile(q)
    <3>1. disk' = d /\ cur' = [cur EXCEPT !.open = FALSE, !.trans = q.trans]
      BY <2>3 DEF StopFile
    <3>2. cur' \in Cursors /\ ~cur'.open
      BY <1>5, <1>7, <3>1 DEF Cursors
    <3> QED
      BY <2>1, <3>1, <3>2
  <2>4. CASE WriteFile(q)
    <3>1. q.kind = "data" /\ q.trans >= cur.trans
      <4>1. cur.trans \in Nat
        BY <1>7, PacketNumbers DEF Cursors
      <4> QED
        BY <1>1, <1>2, <1>5, <2>4, <4>1 DEF WriteFile, Stale
    <3>2. /\ cur' = IF q.file = cur.file THEN [cur EXCEPT !.trans = q.trans] ELSE cur
          /\ disk' = IF q.file = cur.file /\ cur.open
                     THEN [disk EXCEPT ![cur.name] = Append(disk[cur.name], q.trans)] ELSE disk
      BY <2>4 DEF WriteFile
    <3>3. cur' \in Cursors /\ cur'.open = cur.open /\ cur'.name = cur.name
      BY <1>5, <1>7, <3>2 DEF Cursors
    <3>4. /\ \A n \in DOMAIN disk : disk[n] \in Seq(Nat) /\ Rising(disk[n]) /\ (n.hidden => cur.open /\ n = cur.name)
          /\ cur.open => /\ cur.name \in DOMAIN disk
                         /\ \A i \in 1..Len(disk[cur.name]) : disk[cur.name][i] <= cur.trans
      BY <1>6 DEF LogTypes, OpenInv
    <3>5. CASE q.file = cur.file /\ cur.open
      <4> DEFINE log == disk[cur.name]
      <4>1. log \in Seq(Nat) /\ Rising(log) /\ \A i \in 1..Len(log) : log[i] <= q.trans
        <5>1. log \in Seq(Nat) /\ Rising(log) /\ \A i \in 1..Len(log) : log[i] <= cur.trans
          BY <3>4, <3>5
        <5>2. \A i \in 1..Len(log) : log[i] \in Nat
          BY <5>1, ElementOfSeq
        <5>3. cur.trans \in Nat
          BY <1>7, PacketNumbers DEF Cursors
        <5> QED
          BY <1>5, <3>1, <5>1, <5>2, <5>3
      <4>2. /\ Append(log, q.trans) \in Seq(Nat) /\ Rising(Append(log, q.trans))
            /\ \A i \in 1..Len(Append(log, q.trans)) : Append(log, q.trans)[i] <= q.trans
        BY <1>5, <4>1, RisingMore
      <4>3. disk' = [disk EXCEPT ![cur.name] = Append(log, q.trans)] /\ cur'.trans = q.trans
        BY <1>7, <3>2, <3>5 DEF Cursors
      <4> HIDE DEF log
      <4>4. /\ DOMAIN disk' = DOMAIN disk /\ disk'[cur.name] = Append(log, q.trans)
            /\ \A n \in DOMAIN disk : n # cur.name => disk'[n] = disk[n]
        BY <3>4, <3>5, <4>3
      <4> QED
        BY <1>7, <3>3, <3>4, <3>5, <4>2, <4>3, <4>4
    <3>6. CASE ~(q.file = cur.file /\ cur.open)
      BY <1>7, <3>2, <3>3, <3>4, <3>6
    <3> QED
      BY <3>5, <3>6
  <2> QED
    BY <1>1, <1>2, <2>2, <2>3, <2>4
<1>9. LogTypes'
  BY <1>1, <1>3, <1>8 DEF LogTypes
<1>10. OpenInv'
  BY <1>1, <1>6, <1>8 DEF OpenInv
<1> QED
  BY <1>9, <1>10

(* A sequence of packets without a gap, with the next one. *)
LEMMA FromMore ==
  ASSUME NEW k \in Nat, NEW log \in Seq(LogPackets), From(k, log), NEW p, p = Packet(k + Len(log)), p \in LogPackets
  PROVE  Append(log, p) \in Seq(LogPackets) /\ Len(Append(log, p)) = Len(log) + 1 /\ From(k, Append(log, p))
<1> DEFINE m == Append(log, p)
<1>1. /\ m \in Seq(LogPackets) /\ Len(m) = Len(log) + 1 /\ Len(log) \in Nat
      /\ \A i \in 1..Len(log) : m[i] = log[i]
      /\ m[Len(log) + 1] = p
  BY AppendProperties, LenProperties
<1> HIDE DEF m
<1>2. ASSUME NEW i \in 1..Len(m) PROVE m[i] = Packet(k + i - 1)
  <2>1. CASE i = Len(log) + 1
    <3>1. k + i - 1 = k + Len(log)
      BY <1>1, <2>1
    <3> QED
      BY <1>1, <2>1, <3>1
  <2>2. CASE i # Len(log) + 1
    <3>1. i \in 1..Len(log)
      BY <1>1, <2>2
    <3> QED
      BY <1>1, <3>1 DEF From
  <2> QED
    BY <2>1, <2>2
<1> QED
  BY <1>1, <1>2 DEF From, m

(* A sequence without a gap, less its first packet. *)
LEMMA FromLess ==
  ASSUME NEW k \in Nat, NEW log \in Seq(LogPackets), From(k, log), log # << >>
  PROVE  /\ Head(log) = Packet(k) /\ Head(log) \in LogPackets
         /\ Tail(log) \in Seq(LogPackets) /\ Len(log) = Len(Tail(log)) + 1 /\ From(k + 1, Tail(log))
<1>1. /\ Head(log) = log[1] /\ Head(log) \in LogPackets /\ Tail(log) \in Seq(LogPackets)
      /\ Len(log) \in Nat \ {0} /\ Len(Tail(log)) = Len(log) - 1
      /\ \A i \in 1..Len(Tail(log)) : Tail(log)[i] = log[i + 1]
  BY HeadTailProperties, EmptySeq, LenProperties
<1>2. log[1] = Packet(k)
  <2>1. 1 \in 1..Len(log) /\ k + 1 - 1 = k
    BY <1>1
  <2> QED
    BY <2>1 DEF From
<1>3. ASSUME NEW i \in 1..Len(Tail(log)) PROVE Tail(log)[i] = Packet((k + 1) + i - 1)
  <2>1. i + 1 \in 1..Len(log) /\ k + (i + 1) - 1 = (k + 1) + i - 1
    BY <1>1
  <2> QED
    BY <1>1, <2>1 DEF From
<1> QED
  BY <1>1, <1>2, <1>3 DEF From

(* The numbers up to the next one. *)
LEMMA UpToMore ==
  ASSUME NEW n \in Nat
  PROVE  Append(UpTo(n), n) = UpTo(n + 1)
<1> DEFINE u == UpTo(n)
           v == Append(u, n)
           w == UpTo(n + 1)
<1>1. u \in Seq(Nat) /\ Len(u) = n /\ \A i \in 1..n : u[i] = i - 1
  BY DEF UpTo
<1>2. w \in Seq(Nat) /\ Len(w) = n + 1 /\ \A i \in 1..n + 1 : w[i] = i - 1
  BY DEF UpTo
<1> HIDE DEF u, w
<1>3. v \in Seq(Nat) /\ Len(v) = n + 1 /\ (\A i \in 1..n : v[i] = u[i]) /\ v[n + 1] = n
  BY <1>1, AppendProperties
<1> HIDE DEF v
<1>4. \A i \in 1..Len(v) : v[i] = w[i]
  BY <1>1, <1>2, <1>3
<1>5. v = w
  BY <1>2, <1>3, <1>4, SeqEqual
<1> QED
  BY <1>5 DEF u, v, w

(* The log of a file that was just created. *)
LEMMA UpToOne == UpTo(1) = <<0>>
  BY DEF UpTo

(* Packet number k is written after the k ones before it. *)
LEMMA WrittenMore ==
  ASSUME LogTypes, OpenInv, Write, NEW k \in Nat, Written(k), Head(batch) = Packet(k)
  PROVE  Written(k + 1)'
<1> DEFINE p == Packet(k)
<1>1. /\ batch # << >> /\ (CreateFile(p) \/ WriteFile(p) \/ StopFile(p)) /\ ending' = ending
  BY DEF Write
<1>2. p \in LogPackets
  BY <1>1, HeadTailProperties DEF LogTypes
<1>3. /\ p.file \in 1..Files /\ p.trans \in 0..PerFile - 1
      /\ p.kind = IF p.trans = 0 THEN "create" ELSE IF p.trans = PerFile - 1 THEN "end" ELSE "data"
  BY <1>2, PacketTyped
<1>4. ending \in {"no", "asked"}
  BY <1>1 DEF LogTypes, OpenInv
<1>5. cur \in Cursors /\ PerFile = Packets + 2 /\ Packets \in Nat
  BY PacketNumbers DEF LogTypes
<1>6. k + 1 # 0 /\ (k + 1) - 1 = k
  OBVIOUS
<1>7. /\ k = 0 => p.trans = 0
      /\ k # 0 => IF p.trans = 0 THEN Packet(k - 1).trans = PerFile - 1
                  ELSE Packet(k - 1).trans = p.trans - 1 /\ Packet(k - 1).file = p.file
  BY PacketFirst, PacketNext
<1>8. k # 0 => (Packet(k - 1).kind = "end" <=> Packet(k - 1).trans = PerFile - 1)
  BY <1>5 DEF Packet
<1>9. SUFFICES /\ cur'.open <=> p.kind # "end"
               /\ cur'.file = p.file /\ cur'.trans = p.trans
               /\ cur'.open => disk'[cur'.name] = UpTo(p.trans + 1)
               /\ \A n \in DOMAIN disk' : ~n.hidden => disk'[n] = UpTo(Packets + 1)
  BY <1>6 DEF Written
<1>10. \A n \in DOMAIN disk : ~n.hidden => disk[n] = UpTo(Packets + 1)
  BY DEF Written
<1> HIDE DEF p
<1>11. CASE p.trans = 0
  <2>1. ~cur.open
    BY <1>7, <1>8, <1>11 DEF Written
  <2>2. Shown(disk) = disk
    BY <2>1 DEF Shown
  <2>3. p.kind = "create"
    BY <1>3, <1>11
  <2>4. CreateFile(p)
    BY <1>1, <2>3 DEF WriteFile, StopFile
  <2> DEFINE name == Name(p.file, TRUE)
  <2>5. /\ disk' = With(disk, name, <<p.trans>>)
        /\ cur' = [open |-> TRUE, file |-> p.file, trans |-> p.trans, name |-> name]
    BY <2>2, <2>4 DEF CreateFile, NewName
  <2>6. name.hidden
    BY DEF Name
  <2> HIDE DEF name
  <2>7. /\ DOMAIN disk' = DOMAIN disk \cup {name} /\ disk'[name] = <<p.trans>>
        /\ \A n \in DOMAIN disk : n # name => disk'[n] = disk[n]
    BY <2>5 DEF With
  <2>8. <<p.trans>> = UpTo(p.trans + 1)
    BY <1>11, UpToOne
  <2>9. cur'.open /\ cur'.file = p.file /\ cur'.trans = p.trans /\ cur'.name = name
    BY <2>5
  <2> QED
    BY <1>10, <2>3, <2>6, <2>7, <2>8, <2>9
<1>12. CASE p.trans # 0
  <2>1. /\ cur.open /\ cur.file = p.file
        /\ disk[cur.name] = UpTo(p.trans) /\ cur.name \in DOMAIN disk /\ cur.name.hidden
    <3>1. k # 0 /\ Packet(k - 1).trans = p.trans - 1 /\ Packet(k - 1).file = p.file
      BY <1>7, <1>12
    <3>2. Packet(k - 1).kind # "end"
      BY <1>3, <1>5, <1>8, <3>1
    <3>3. (p.trans - 1) + 1 = p.trans
      BY <1>3
    <3>4. cur.open /\ cur.file = p.file /\ disk[cur.name] = UpTo(p.trans)
      BY <3>1, <3>2, <3>3 DEF Written
    <3> QED
      BY <1>5, <3>4 DEF OpenInv, Cursors
  <2>2. CASE p.kind = "data"
    <3>1. /\ disk' = [disk EXCEPT ![cur.name] = Append(disk[cur.name], p.trans)]
          /\ cur' = [cur EXCEPT !.trans = p.trans]
      BY <1>1, <2>1, <2>2 DEF WriteFile, CreateFile, StopFile
    <3>2. cur'.open /\ cur'.file = p.file /\ cur'.trans = p.trans /\ cur'.name = cur.name
      BY <1>5, <2>1, <3>1 DEF Cursors
    <3>3. disk'[cur.name] = UpTo(p.trans + 1)
      <4>1. p.trans \in Nat
        BY <1>3, <1>5
      <4>2. disk'[cur.name] = Append(UpTo(p.trans), p.trans)
        BY <2>1, <3>1
      <4> QED
        BY <4>1, <4>2, UpToMore
    <3>4. \A n \in DOMAIN disk' : n # cur.name => n \in DOMAIN disk /\ disk'[n] = disk[n]
      BY <3>1
    <3> QED
      BY <1>10, <2>1, <2>2, <3>2, <3>3, <3>4
  <2>3. CASE p.kind # "data"
    <3>1. p.kind = "end" /\ p.trans = Packets + 1
      BY <1>3, <1>5, <1>12, <2>3
    <3>2. disk' = Shown(disk) /\ cur' = [cur EXCEPT !.open = FALSE, !.trans = p.trans]
      BY <1>1, <3>1 DEF WriteFile, CreateFile, StopFile
    <3>3. ~cur'.open /\ cur'.file = p.file /\ cur'.trans = p.trans
      BY <1>5, <2>1, <3>2 DEF Cursors
    <3>4. ASSUME NEW n \in DOMAIN disk', ~n.hidden PROVE disk'[n] = UpTo(Packets + 1)
      <4>1. (n \in DOMAIN disk /\ disk'[n] = disk[n]) \/ disk'[n] = disk[cur.name]
        BY <3>2, ShownTyped
      <4> QED
        BY <1>10, <2>1, <3>1, <3>4, <4>1
    <3> QED
      BY <3>1, <3>3, <3>4
  <2> QED
    BY <2>2, <2>3
<1> QED
  BY <1>11, <1>12

(* Nothing is lost between the lidar and the files while no fault happens. *)
LEMMA LogsStep ==
  ASSUME LogTypes, OpenInv, WholeLogs, LogNext
  PROVE  WholeLogs'
<1>1. SUFFICES ASSUME faults' = 0
               PROVE  /\ ending' # "down"
                      /\ ending' # "joined" =>
                           \E k \in Nat :
                             /\ next' = k + Len(batch') + Len(queue') + Len(wire')
                             /\ From(k, batch') /\ From(k + Len(batch'), queue')
                             /\ From(k + Len(batch') + Len(queue'), wire')
                             /\ ~handler' => k + Len(batch') + Len(queue') = 0
                             /\ Written(k)'
  BY DEF WholeLogs, From
<1>2. faults \in Nat
  BY PacketNumbers DEF LogTypes
<1>3. ~Fault /\ ~Crash
  BY <1>1, <1>2 DEF Fault, Crash
<1>4. faults = 0
  BY <1>1, <1>3 DEF LogNext, StartLogger, Push, Deliver, Tick, TakeQueue, Write, List, RemoveOldest, Destory,
                    Join, Restart
<1>5. ending # "down"
  BY <1>4 DEF WholeLogs
<1>6. CASE Join
  BY <1>6 DEF Join
<1>7. CASE ending = "joined" /\ ~Join
  BY <1>3, <1>5, <1>7 DEF LogNext, StartLogger, Push, Deliver, Tick, TakeQueue, Write, List, RemoveOldest,
                          Destory, Restart
<1>8. CASE ending # "joined" /\ ~Join
  <2>1. PICK k \in Nat :
          /\ next = k + Len(batch) + Len(queue) + Len(wire)
          /\ From(k, batch) /\ From(k + Len(batch), queue) /\ From(k + Len(batch) + Len(queue), wire)
          /\ ~handler => k + Len(batch) + Len(queue) = 0
          /\ Written(k)
    BY <1>4, <1>8 DEF WholeLogs
  <2>2. /\ wire \in Seq(LogPackets) /\ queue \in Seq(LogPackets) /\ batch \in Seq(LogPackets)
        /\ Len(wire) \in Nat /\ Len(queue) \in Nat /\ Len(batch) \in Nat
    BY LenProperties DEF LogTypes
  <2>3. CASE StartLogger \/ Tick \/ List \/ Destory
    <3>1. UNCHANGED <<next, wire, queue, batch, handler, cur, disk>> /\ ending' # "down"
      BY <1>5, <2>3 DEF StartLogger, Tick, List, Destory
    <3>2. Written(k)'
      BY <2>1, <3>1 DEF Written
    <3> QED
      BY <2>1, <3>1, <3>2
  <2>4. CASE Push
    <3>1. /\ wire' = Append(wire, Packet(next)) /\ next' = next + 1 /\ next < Files * PerFile
          /\ UNCHANGED <<queue, batch, handler, cur, disk, ending>>
      BY <1>5, <2>4 DEF Push
    <3> DEFINE j == k + Len(batch) + Len(queue)
    <3>2. j \in Nat /\ next = j + Len(wire) /\ From(j, wire) /\ next \in Nat
      BY <2>1, <2>2
    <3>3. Packet(next) \in LogPackets
      BY <3>1, <3>2, PacketIn
    <3> HIDE DEF j
    <3>4. Len(wire') = Len(wire) + 1 /\ From(j, wire')
      BY <2>2, <3>1, <3>2, <3>3, FromMore
    <3>5. Written(k)'
      BY <2>1, <3>1 DEF Written
    <3>6. next' = k + Len(batch') + Len(queue') + Len(wire')
      BY <2>1, <2>2, <3>1, <3>4
    <3> QED
      BY <1>5, <2>1, <3>1, <3>4, <3>5, <3>6 DEF j
  <2>5. CASE Deliver
    <3>1. /\ wire # << >> /\ Enqueue(Head(wire)) /\ wire' = Tail(wire)
          /\ UNCHANGED <<next, batch, cur, disk, ending>>
      BY <2>5 DEF Deliver
    <3> DEFINE i == k + Len(batch)
               j == i + Len(queue)
    <3>2. i \in Nat /\ j \in Nat /\ From(i, queue) /\ From(j, wire)
      BY <2>1, <2>2
    <3> HIDE DEF j
    <3>3. /\ Head(wire) = Packet(j) /\ Head(wire) \in LogPackets
          /\ Len(wire) = Len(wire') + 1 /\ From(j + 1, wire') /\ Len(wire') \in Nat
      <4>1. wire' \in Seq(LogPackets)
        BY <2>2, <3>1, HeadTailProperties
      <4> QED
        BY <2>2, <3>1, <3>2, <4>1, FromLess, LenProperties
    <3>4. handler'
      <4>1. ~handler => Head(wire).kind = "create"
        <5>1. ~handler => j = 0
          BY <2>1 DEF j
        <5>2. Packet(0).kind = "create"
          BY PacketFirst DEF Packet
        <5> QED
          BY <3>3, <5>1, <5>2
      <4> QED
        BY <3>1, <4>1 DEF Enqueue, LogTypes
    <3>5. queue' = Append(queue, Head(wire))
      BY <3>1, <3>4 DEF Enqueue
    <3>6. Len(queue') = Len(queue) + 1 /\ From(i, queue')
      <4>1. Head(wire) = Packet(i + Len(queue))
        BY <3>3 DEF j
      <4> HIDE DEF i
      <4> QED
        BY <2>2, <3>2, <3>3, <3>5, <4>1, FromMore
    <3>7. Written(k)'
      BY <2>1, <3>1 DEF Written
    <3>8. /\ next' = k + Len(batch') + Len(queue') + Len(wire')
          /\ k + Len(batch') + Len(queue') = j + 1
      BY <2>1, <2>2, <3>1, <3>3, <3>6 DEF j
    <3> QED
      BY <1>5, <2>1, <3>1, <3>3, <3>4, <3>6, <3>7, <3>8
  <2>6. CASE TakeQueue
    <3>1. /\ batch = << >> /\ batch' = queue /\ queue' = << >>
          /\ UNCHANGED <<next, wire, handler, cur, disk, ending>>
      BY <2>6 DEF TakeQueue
    <3>2. Len(batch) = 0 /\ Len(queue') = 0
      BY <3>1
    <3>3. k + Len(batch) = k /\ k + Len(batch) + Len(queue) = k + Len(batch') + Len(queue')
          /\ next' = k + Len(batch') + Len(queue') + Len(wire')
      BY <2>1, <2>2, <3>1, <3>2
    <3>4. From(k + Len(batch'), queue')
      BY <3>1 DEF From
    <3>5. Written(k)'
      BY <2>1, <3>1 DEF Written
    <3> QED
      BY <1>5, <2>1, <3>1, <3>3, <3>4, <3>5
  <2>7. CASE Write
    <3>1. /\ batch # << >> /\ batch' = Tail(batch)
          /\ UNCHANGED <<next, wire, handler, queue, ending>>
      BY <2>7 DEF Write
    <3>2. /\ Head(batch) = Packet(k) /\ Len(batch) = Len(batch') + 1 /\ From(k + 1, batch')
          /\ Len(batch') \in Nat
      <4>1. batch' \in Seq(LogPackets)
        BY <2>2, <3>1, HeadTailProperties
      <4> QED
        BY <2>1, <2>2, <3>1, <4>1, FromLess, LenProperties
    <3>3. Written(k + 1)'
      BY <2>1, <2>7, <3>2, WrittenMore
    <3>4. /\ k + 1 \in Nat /\ (k + 1) + Len(batch') = k + Len(batch)
      BY <2>2, <3>2
    <3> QED
      BY <1>5, <2>1, <3>1, <3>2, <3>3, <3>4
  <2>8. CASE RemoveOldest
    <3>1. PICK n \in listed : disk' = Without(disk, {n}) \/ disk' = disk
      BY <2>8 DEF RemoveOldest
    <3>2. UNCHANGED <<next, wire, handler, queue, batch, cur, ending>>
      BY <2>8 DEF RemoveOldest
    <3>3. ~n.hidden /\ cur.name.hidden
      BY DEF LogTypes, Cursors
    <3>4. /\ DOMAIN disk' \subseteq DOMAIN disk /\ \A m \in DOMAIN disk' : disk'[m] = disk[m]
          /\ \A m \in DOMAIN disk : m.hidden => m \in DOMAIN disk'
      BY <3>1, <3>3 DEF Without
    <3>5. cur.open => cur.name \in DOMAIN disk /\ disk'[cur.name] = disk[cur.name]
      BY <3>3, <3>4 DEF OpenInv
    <3>6. Written(k)'
      BY <2>1, <3>2, <3>4, <3>5 DEF Written
    <3> QED
      BY <1>5, <2>1, <3>2, <3>6
  <2>9. ~Restart
    BY <1>5 DEF Restart
  <2> QED
    BY <1>3, <1>8, <2>3, <2>4, <2>5, <2>6, <2>7, <2>8, <2>9 DEF LogNext
<1> QED
  BY <1>6, <1>7, <1>8

(* Nothing is there at first. *)
LEMMA LogInitInv ==
  ASSUME LogInit
  PROVE  LogInv
<1>1. LogTypes
  <2>1. NoFile \in Cursors
    <3>1. FALSE \in BOOLEAN /\ 0 \in 0..Files /\ 0 \in 0..PerFile /\ 0 \in 0..MaxTime /\ TRUE \in {TRUE}
      BY PacketNumbers
    <3> QED
      BY <3>1, Zenon DEF NoFile, Cursors
  <2>2. 0 \in 0..Files * PerFile /\ 0 \in 0..MaxTime /\ 0 \in 0..MaxFaults
    BY PacketNumbers
  <2>3. << >> \in Seq(LogPackets) /\ DOMAIN << >> = {} /\ FALSE \in BOOLEAN
    OBVIOUS
  <2> QED
    BY <2>1, <2>2, <2>3 DEF LogInit, LogTypes
<1>2. OpenInv
  BY DEF LogInit, OpenInv, NoFile
<1>3. WholeLogs
  <2>1. /\ next = 0 + Len(batch) + Len(queue) + Len(wire)
        /\ From(0, batch) /\ From(0 + Len(batch), queue) /\ From(0 + Len(batch) + Len(queue), wire)
        /\ 0 + Len(batch) + Len(queue) = 0
    BY DEF LogInit, From
  <2>2. Written(0)
    BY DEF LogInit, Written, NoFile
  <2>3. ending = "no" /\ 0 \in Nat
    BY DEF LogInit
  <2> QED
    BY <2>1, <2>2, <2>3 DEF WholeLogs
<1> QED
  BY <1>1, <1>2, <1>3 DEF LogInv

(* The invariant gives what the run checks. *)
LEMMA LogsSound ==
  ASSUME LogInv
  PROVE  LogsIntact
<1>1. LogTypes /\ OpenInv /\ WholeLogs
  BY DEF LogInv
<1>2. LogTypeOK
  <2>1. \A s \in {wire, queue, batch} : \A i \in DOMAIN s : s[i] \in {Packet(n) : n \in 0..Files * PerFile - 1}
    <3>1. ASSUME NEW s \in Seq(LogPackets), NEW i \in DOMAIN s PROVE s[i] \in LogPackets
      OBVIOUS
    <3> QED
      BY <1>1, <3>1 DEF LogTypes, LogPackets
  <2>2. cur.open \in BOOLEAN /\ cur.file \in 0..Files /\ cur.trans \in 0..PerFile
    BY <1>1 DEF LogTypes, Cursors
  <2>3. \A n \in DOMAIN disk : n.at \in 0..MaxTime /\ n.file \in 1..Files
    BY <1>1 DEF LogTypes, LogNames
  <2>4. listed \subseteq [at : 0..MaxTime, file : 1..Files, hidden : BOOLEAN]
    BY <1>1 DEF LogTypes, LogNames
  <2> QED
    BY <1>1, <2>1, <2>2, <2>3, <2>4 DEF LogTypes, LogTypeOK
<1>3. OpenFileKept /\ OnlyOpenHidden
  BY <1>1 DEF OpenInv, OpenFileKept, OnlyOpenHidden
<1>4. FilesInOrder
  <2>1. ASSUME NEW n \in DOMAIN disk, faults = 0, ~n.hidden, ending # "joined"
        PROVE  disk[n] = [i \in 1..Packets + 1 |-> i - 1]
    <3>1. PICK k \in Nat : Written(k)
      BY <1>1, <2>1 DEF WholeLogs
    <3> QED
      BY <2>1, <3>1 DEF Written, UpTo
  <2> QED
    BY <1>1, <2>1 DEF FilesInOrder, OpenInv, Rising
<1> QED
  BY <1>2, <1>3, <1>4 DEF LogsIntact

(* The log files of a lidar are in order and, without faults, whole; the open one stays *)
(* and is the only hidden one.                                                           *)
THEOREM LogsInOrder == LogSpec => []LogsIntact
<1>1. LogInit => LogInv
  BY LogInitInv
<1>2. LogInv /\ [LogNext]_logVars => LogInv'
  <2>1. ASSUME LogInv, LogNext PROVE LogInv'
    <3>1. LogTypes /\ OpenInv /\ WholeLogs
      BY <2>1 DEF LogInv
    <3>2. WholeLogs'
      BY <2>1, <3>1, LogsStep
    <3>3. LogTypes' /\ OpenInv'
      BY <2>1, <3>1, LogWireStep, TakeQueueStep, DirectoryStep, WriteLogStep DEF LogNext
    <3> QED
      BY <3>2, <3>3 DEF LogInv
  <2>2. ASSUME LogInv, UNCHANGED logVars PROVE LogInv'
    BY <2>2 DEF LogInv, LogTypes, OpenInv, WholeLogs, Written, From, Rising, logVars
  <2> QED
    BY <2>1, <2>2
<1>3. LogInv => LogsIntact
  BY LogsSound
<1> QED
  BY <1>1, <1>2, <1>3, PTL DEF LogSpec
=============================================================================
