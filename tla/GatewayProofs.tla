----------------------------- MODULE GatewayProofs -----------------------------
(***************************************************************************)
(* The API command gateway: its wait table, then its state machine.        *)
(*                                                                         *)
(* The wait table for any number of callers, ids, calls, finishes and new  *)
(* initializations: an entry is there exactly while its owner is in the    *)
(* call, no answer is lost or goes astray, and a call that succeeds in its *)
(* own initialization has the response to its own command.                 *)
(*                                                                         *)
(* The argument numbers the calls: seq tells every two apart, id only the  *)
(* two that are under way, and the modem never holds two commands of which *)
(* one could be taken for the other.                                       *)
(***************************************************************************)
EXTENDS BlockTbl, GwState, WellFoundedInduction, TLAPS

Live(c) == pc[c] # "idle"
NotSent == {"cmd", "add", "send"}

(* The table holds each entry of a caller that is inside, once. *)
Entries ==
  /\ ToSet(table) = {c \in Clients : pc[c] \in InTable}
  /\ \A i, j \in DOMAIN table : table[i] = table[j] => i = j

(* Calls are numbered as they begin, and belong to an initialization. *)
Stamps ==
  /\ isinit <=> fin = "off"
  /\ \A n \in strays : n <= calls
  /\ \A m \in modem : m.seq <= calls
  /\ \A c \in Clients : Live(c) => /\ call[c].cmd \in Commands
                                   /\ call[c].id \in 1 .. MaxId
                                   /\ call[c].seq \in 1 .. calls
                                   /\ call[c].epoch <= inits

(* Two calls under way differ in id and number. *)
Distinct ==
  \A c, d \in Clients : c # d /\ Live(c) /\ Live(d)
    => call[c].id # call[d].id /\ call[c].seq # call[d].seq

(* What the modem has with the id, or the number, of a call under way is   *)
(* that call's command, and it is there only once it has been sent.        *)
Own ==
  \A m \in modem, c \in Clients : Live(c) =>
    /\ m.id = call[c].id => m.seq = call[c].seq
    /\ m.seq = call[c].seq => m.id = call[c].id /\ m.cmd = call[c].cmd
    /\ pc[c] \in NotSent => m.seq # call[c].seq

(* The response to a call under way has not gone to the dispatcher. *)
NotStray == \A c \in Clients : Live(c) => call[c].seq \notin strays

(* Who sleeps on a ready entry has been signalled. *)
Signalled ==
  \A c \in Clients :
    /\ pc[c] = "wait" /\ ready[c] => token[c]
    /\ pc[c] = "result" => ready[c]

(* A ready entry, in the initialization its call began in, has the         *)
(* response unless it has an error or was released; a call that is about   *)
(* to return with success has it.                                          *)
Current(c) == call[c].epoch = inits
Filled ==
  \A c \in Clients :
    /\ pc[c] \in InTable /\ Current(c) /\ isinit /\ ready[c] /\ result[c] = 0
         => got[c] = call[c].seq
    /\ pc[c] = "remove" /\ ret[c] = "OK" /\ Current(c) => got[c] = call[c].seq

Bookkeeping == Stamps /\ Distinct /\ Own /\ NotStray
IInv == TypeOK /\ Entries /\ Bookkeeping /\ Signalled /\ Filled

(* The invariant holds at the start. *)
LEMMA InitIInv == Init => IInv
<1> SUFFICES ASSUME Init PROVE IInv OBVIOUS
<1> USE BlockTblAssumption
<1>1. /\ call \in [Clients -> [cmd : Commands \cup {EventId}, id : 0..MaxId,
                               seq : Nat, epoch : Nat, timed : BOOLEAN]]
      /\ pc \in [Clients -> Places] /\ ret \in [Clients -> Returns]
  BY DEF Init, NoCall, Places, Returns
<1>2. TypeOK BY <1>1 DEF Init, TypeOK
<1>3. Entries BY DEF Init, Entries, ToSet, InTable
<1>4. Bookkeeping BY DEF Init, Bookkeeping, Stamps, Distinct, Own, NotStray, Live
<1>5. Signalled /\ Filled BY DEF Init, Signalled, Filled, InTable
<1> QED BY <1>2, <1>3, <1>4, <1>5 DEF IInv

(* The next id is a new number in the range of ids. *)
LEMMA NextIdType == ASSUME NEW i \in 0..MaxId PROVE NextId(i) \in 1..MaxId
<1>1. (i + 1) % (MaxId + 1) \in 0..MaxId BY BlockTblAssumption
<1> QED BY <1>1, BlockTblAssumption DEF NextId

(* What the table holds when an entry is put at its head. *)
LEMMA EntryAdded ==
  ASSUME NEW s \in Seq(Clients), NEW c \in Clients, c \notin ToSet(s),
         \A i, j \in DOMAIN s : s[i] = s[j] => i = j
  PROVE  LET t == <<c>> \o s IN
           /\ t \in Seq(Clients)
           /\ ToSet(t) = ToSet(s) \cup {c}
           /\ \A i, j \in DOMAIN t : t[i] = t[j] => i = j
<1> DEFINE t == <<c>> \o s
<1>1. /\ t \in Seq(Clients) /\ Len(t) = Len(s) + 1
      /\ t[1] = c /\ \A i \in 1..Len(s) : t[i + 1] = s[i]
  OBVIOUS
<1>2. DOMAIN s = 1..Len(s) /\ DOMAIN t = 1..Len(t) BY <1>1
<1>3. \A i \in DOMAIN t : i = 1 \/ (i - 1 \in DOMAIN s /\ t[i] = s[i - 1])
  <2> SUFFICES ASSUME NEW i \in DOMAIN t, i # 1
               PROVE  i - 1 \in DOMAIN s /\ t[i] = s[i - 1]
    OBVIOUS
  <2>1. i - 1 \in 1..Len(s) /\ (i - 1) + 1 = i BY <1>1, <1>2
  <2> QED BY <2>1, <1>1, <1>2
<1>4. \A i \in DOMAIN s : s[i] # c BY DEF ToSet
<1>5. ToSet(t) = ToSet(s) \cup {c}
  <2>1. \A i \in DOMAIN s : i + 1 \in DOMAIN t /\ t[i + 1] = s[i] BY <1>1, <1>2
  <2>2. 1 \in DOMAIN t BY <1>1, <1>2
  <2> HIDE DEF t
  <2> QED BY <1>1, <1>3, <2>1, <2>2 DEF ToSet
<1>6. \A i, j \in DOMAIN t : t[i] = t[j] => i = j
  <2> HIDE DEF t
  <2> QED BY <1>1, <1>2, <1>3, <1>4
<1> QED BY <1>1, <1>5, <1>6

(* What is left when an entry is taken out. *)
LEMMA EntryRemoved ==
  ASSUME NEW s \in Seq(Clients), NEW k \in DOMAIN s,
         \A i, j \in DOMAIN s : s[i] = s[j] => i = j
  PROVE  LET t == RemoveAt(s, k) IN
           /\ t \in Seq(Clients)
           /\ ToSet(t) = ToSet(s) \ {s[k]}
           /\ \A i, j \in DOMAIN t : t[i] = t[j] => i = j
<1> DEFINE t == RemoveAt(s, k)
           At(i) == IF i < k THEN i ELSE i + 1
<1>1. DOMAIN s = 1..Len(s) /\ k \in 1..Len(s) /\ Len(s) \in Nat OBVIOUS
<1>2. /\ t \in Seq(Clients) /\ DOMAIN t = 1..(Len(s) - 1)
      /\ \A i \in DOMAIN t : t[i] = s[At(i)]
  <2> DEFINE a == SubSeq(s, 1, k - 1)
             b == SubSeq(s, k + 1, Len(s))
  <2>1. /\ a \in Seq(Clients) /\ Len(a) = k - 1 /\ \A i \in 1..(k - 1) : a[i] = s[i]
    BY <1>1
  <2>2. /\ b \in Seq(Clients) /\ Len(b) = Len(s) - k
        /\ \A i \in 1..(Len(s) - k) : b[i] = s[i + k]
    BY <1>1
  <2>3. t = a \o b BY DEF RemoveAt
  <2> HIDE DEF a, b, t
  <2>4. t \in Seq(Clients) /\ Len(t) = Len(s) - 1
    <3>1. a \o b \in Seq(Clients) BY <2>1, <2>2
    <3>2. Len(a \o b) = Len(a) + Len(b) BY <2>1, <2>2
    <3> QED BY <1>1, <2>1, <2>2, <2>3, <3>1, <3>2
  <2>5. ASSUME NEW i \in 1..(Len(s) - 1) PROVE t[i] = s[At(i)]
    <3>1. CASE i < k
      <4>1. i \in 1..Len(a) BY <1>1, <2>1, <3>1
      <4> QED BY <4>1, <1>1, <2>1, <2>2, <2>3, <3>1
    <3>2. CASE ~ (i < k)
      <4> DEFINE j == i - (k - 1)
      <4>1. Len(b) \in Nat /\ Len(b) = Len(s) - k BY <1>1, <2>2
      <4>2. j \in 1..Len(b) /\ j + k = i + 1 BY <1>1, <4>1, <3>2
      <4>3. i \in 1..(Len(a) + Len(b)) /\ ~ (i <= Len(a)) /\ i - Len(a) = j
        BY <1>1, <2>1, <4>1, <3>2
      <4>4. t[i] = b[j]
        <5>1. a \in Seq(Clients) /\ b \in Seq(Clients) BY <2>1, <2>2
        <5> HIDE DEF j
        <5>2. (a \o b)[i] = b[i - Len(a)] BY <4>3, <5>1
        <5> QED BY <4>3, <5>2, <2>3, Zenon
      <4> HIDE DEF j
      <4>5. b[j] = s[j + k] BY <4>1, <4>2, <2>2
      <4> QED BY <4>2, <4>4, <4>5, <3>2, Zenon
    <3> QED BY <3>1, <3>2
  <2> QED BY <2>4, <2>5
<1> HIDE DEF t
<1>3. \A i \in DOMAIN t : At(i) \in DOMAIN s /\ At(i) # k BY <1>1, <1>2
<1>4. \A i, j \in DOMAIN t : At(i) = At(j) => i = j BY <1>1, <1>2
<1>5. \A j \in DOMAIN s : j # k => \E i \in DOMAIN t : At(i) = j
  <2> SUFFICES ASSUME NEW j \in DOMAIN s, j # k PROVE \E i \in DOMAIN t : At(i) = j
    OBVIOUS
  <2>1. CASE j < k
    <3>1. j \in DOMAIN t /\ At(j) = j BY <1>1, <1>2, <2>1
    <3> QED BY <3>1
  <2>2. CASE ~ (j < k)
    <3>1. j - 1 \in DOMAIN t /\ At(j - 1) = j BY <1>1, <1>2, <2>2
    <3> QED BY <3>1
  <2> QED BY <2>1, <2>2
<1> HIDE DEF At
<1>6. ToSet(t) = ToSet(s) \ {s[k]} BY <1>2, <1>3, <1>5 DEF ToSet
<1>7. \A i, j \in DOMAIN t : t[i] = t[j] => i = j BY <1>2, <1>3, <1>4
<1> QED BY <1>2, <1>6, <1>7 DEF t

(* apicmdgw_writetable finds an entry that matches, if there is one. *)
LEMMA FirstMatchIs ==
  ASSUME NEW cmd, NEW id, TypeOK
  PROVE  /\ \A c \in FirstMatch(cmd, id) : c \in ToSet(table) /\ Matches(c, cmd, id)
         /\ FirstMatch(cmd, id) = {} => \A c \in ToSet(table) : ~ Matches(c, cmd, id)
<1> DEFINE I == {i \in 1..Len(table) : Matches(table[i], cmd, id)}
           found == SelectInSeq(table, LAMBDA c : Matches(c, cmd, id))
<1>1. table \in Seq(Clients) /\ DOMAIN table = 1..Len(table) /\ I \subseteq Nat
  BY DEF TypeOK
<1>2. found = IF I # {} THEN Min(I) ELSE 0 BY DEF SelectInSeq
<1>3. I # {} => Min(I) \in I
  <2> SUFFICES ASSUME I # {} PROVE Min(I) \in I OBVIOUS
  <2>1. PICK k \in I : \A j \in I : k <= j
    <3> DEFINE less == {ss \in Nat \X Nat : ss[1] < ss[2]}
    <3>1. \A x, y \in Nat : <<x, y>> \in less <=> x < y OBVIOUS
    <3>2. IsWellFoundedOn(less, Nat) BY NatLessThanWellFounded DEF OpToRel
    <3> HIDE DEF less
    <3>3. \E k \in I : \A j \in I : ~ (<<j, k>> \in less) BY <1>1, <3>2, WFMin
    <3> HIDE DEF I
    <3>4. PICK k \in I : \A j \in I : ~ (<<j, k>> \in less) BY <3>3
    <3>5. ASSUME NEW j \in I PROVE k <= j
      <4>1. j \in Nat /\ k \in Nat BY <1>1
      <4>2. ~ (j < k) BY <3>1, <3>4, <4>1
      <4> QED BY <4>1, <4>2
    <3> QED BY <3>5
  <2> QED BY <2>1 DEF Min
<1>4. FirstMatch(cmd, id) = IF found = 0 THEN {} ELSE {table[found]} BY DEF FirstMatch
<1> HIDE DEF found
<1>5. CASE I = {}
  <2>1. found = 0 BY <1>2, <1>5
  <2> QED BY <2>1, <1>4, <1>5, <1>1 DEF ToSet
<1>6. CASE I # {}
  <2>1. found \in I /\ found # 0 BY <1>2, <1>3, <1>6
  <2> QED BY <2>1, <1>4, <1>1 DEF ToSet
<1> QED BY <1>5, <1>6

(* No call begins, no command is sent: the bookkeeping stays. *)
LEMMA BookkeepingKept ==
  ASSUME Bookkeeping, UNCHANGED <<isinit, fin, inits, call, calls, strays, modem>>,
         \A c \in Clients : Live(c)' => Live(c),
         \A c \in Clients : pc'[c] \in NotSent => pc[c] \in NotSent
  PROVE  Bookkeeping'
<1> USE DEF Bookkeeping
<1>1. Stamps' BY DEF Stamps
<1>2. Distinct' BY DEF Distinct
<1>3. Own' BY DEF Own
<1>4. NotStray' BY DEF NotStray
<1> QED BY <1>1, <1>2, <1>3, <1>4

(* Nobody enters or leaves the table. *)
LEMMA EntriesKept ==
  ASSUME Entries, table' = table,
         \A c \in Clients : pc'[c] \in InTable <=> pc[c] \in InTable
  PROVE  Entries'
BY DEF Entries, ToSet

(* A call begins: its id is nobody else's and the modem has nothing left   *)
(* with it; its number is new.                                             *)
LEMMA AllocCmdIInv ==
  ASSUME IInv, NEW c \in Clients, NEW cmd \in Commands, NEW isTimed \in BOOLEAN,
         AllocCmd(c, cmd, isTimed)
  PROVE  IInv'
<1> DEFINE id == NextId(transid)
<1> USE BlockTblAssumption DEF IInv
<1>1. id \in 1..MaxId BY NextIdType DEF TypeOK
<1> HIDE DEF id
<1>2. /\ pc[c] = "idle" /\ isinit
      /\ \A d \in Clients : Live(d) => call[d].id # id
      /\ transid' = id
      /\ modem' = {m \in modem : m.id # id}
      /\ calls' = calls + 1
      /\ call' = [call EXCEPT ![c] = [cmd |-> cmd, id |-> id, seq |-> calls + 1,
                                      epoch |-> inits, timed |-> isTimed]]
      /\ pc' = [pc EXCEPT ![c] = "cmd"]
      /\ UNCHANGED <<gwVars, table, entryVars, ret, strays>>
  BY DEF AllocCmd, InUse, Live, Goto, id
<1>3. TypeOK'
  <2>1. [cmd |-> cmd, id |-> id, seq |-> calls + 1, epoch |-> inits, timed |-> isTimed]
          \in [cmd : Commands \cup {EventId}, id : 0..MaxId, seq : Nat, epoch : Nat,
               timed : BOOLEAN]
    BY <1>1 DEF TypeOK
  <2>2. /\ pc' \in [Clients -> Places] /\ transid' \in 0..MaxId /\ calls' \in Nat
        /\ modem' \subseteq [cmd : Commands, id : 1..MaxId, seq : Nat]
    BY <1>1, <1>2 DEF TypeOK, Places
  <2>3. call' \in [Clients -> [cmd : Commands \cup {EventId}, id : 0..MaxId, seq : Nat,
                                epoch : Nat, timed : BOOLEAN]]
    BY <1>2, <2>1 DEF TypeOK
  <2> QED BY <1>2, <2>2, <2>3 DEF TypeOK, gwVars, entryVars
<1>4. /\ call'[c].cmd = cmd /\ call'[c].id = id /\ call'[c].seq = calls + 1
      /\ call'[c].epoch = inits /\ pc'[c] = "cmd"
      /\ \A d \in Clients \ {c} : call'[d] = call[d] /\ pc'[d] = pc[d]
      /\ calls \in Nat /\ inits \in Nat
  BY <1>2 DEF TypeOK
<1>5. Entries' BY <1>2, <1>4, EntriesKept DEF InTable
<1>6. Stamps'
  <2>1. \A n \in strays : n \in Nat BY DEF TypeOK
  <2>2. \A m \in modem : m.seq \in Nat BY DEF TypeOK
  <2> QED BY <1>1, <1>2, <1>4, <2>1, <2>2 DEF Bookkeeping, Stamps, Live, gwVars
<1>7. Distinct' BY <1>2, <1>4 DEF Bookkeeping, Stamps, Distinct, Live
<1>8. Own'
  <2> SUFFICES ASSUME NEW m \in modem', NEW d \in Clients, Live(d)'
               PROVE  /\ m.id = call'[d].id => m.seq = call'[d].seq
                      /\ m.seq = call'[d].seq => m.id = call'[d].id /\ m.cmd = call'[d].cmd
                      /\ pc'[d] \in NotSent => m.seq # call'[d].seq
    BY DEF Own
  <2>1. m \in modem /\ m.id # id /\ m.seq \in Nat /\ m.seq <= calls
    BY <1>2 DEF TypeOK, Bookkeeping, Stamps
  <2>2. CASE d = c BY <1>4, <2>1, <2>2
  <2>3. CASE d # c BY <1>4, <2>1, <2>3 DEF Bookkeeping, Own, Live
  <2> QED BY <2>2, <2>3
<1>9. NotStray'
  <2>1. calls + 1 \notin strays BY <1>4 DEF Bookkeeping, Stamps
  <2> QED BY <1>2, <1>4, <2>1 DEF Bookkeeping, NotStray, Live
<1>10. Signalled' BY <1>2, <1>4 DEF Signalled, entryVars
<1>11. Filled' BY <1>2, <1>4 DEF Filled, Current, InTable, entryVars, gwVars
<1> QED BY <1>3, <1>5, <1>6, <1>7, <1>8, <1>9, <1>10, <1>11 DEF Bookkeeping

(* apicmdgw_addtable. *)
LEMMA AddTableIInv ==
  ASSUME IInv, NEW c \in Clients, AddTable(c) PROVE IInv'
<1> USE BlockTblAssumption DEF IInv
<1>1. /\ pc[c] = "add" /\ pc' = [pc EXCEPT ![c] = "send"]
      /\ table' = <<c>> \o table
      /\ ready' = [ready EXCEPT ![c] = FALSE] /\ result' = [result EXCEPT ![c] = 0]
      /\ token' = [token EXCEPT ![c] = FALSE] /\ got' = [got EXCEPT ![c] = 0]
      /\ UNCHANGED <<gwVars, call, ret, transid, calls, modem, strays>>
  BY DEF AddTable, Goto
<1>2. table \in Seq(Clients) /\ c \notin ToSet(table) /\ pc \in [Clients -> Places]
  BY <1>1 DEF Entries, InTable, TypeOK
<1>3. /\ table' \in Seq(Clients)
      /\ ToSet(table') = ToSet(table) \cup {c}
      /\ \A i, j \in DOMAIN table' : table'[i] = table'[j] => i = j
  BY <1>1, <1>2, EntryAdded DEF Entries
<1>4. pc'[c] = "send" /\ \A d \in Clients \ {c} : pc'[d] = pc[d] BY <1>1, <1>2
<1>5. TypeOK'
  <2>1. /\ pc' \in [Clients -> Places] /\ ready' \in [Clients -> BOOLEAN]
        /\ result' \in [Clients -> {0, 1}] /\ token' \in [Clients -> BOOLEAN]
        /\ got' \in [Clients -> Nat]
    BY <1>1 DEF TypeOK, Places
  <2> QED BY <1>1, <1>3, <2>1 DEF TypeOK, gwVars
<1>6. Entries' BY <1>3, <1>4 DEF Entries, InTable
<1>7. Bookkeeping' BY <1>1, <1>4, BookkeepingKept DEF gwVars, Live, NotSent
<1>8. Signalled' BY <1>1, <1>4 DEF Signalled, TypeOK
<1>9. Filled'
  <2>1. ready'[c] = FALSE /\ pc'[c] # "remove" BY <1>1, <1>4 DEF TypeOK
  <2>2. \A d \in Clients \ {c} : /\ ready'[d] = ready[d] /\ result'[d] = result[d]
                                 /\ got'[d] = got[d]
    BY <1>1 DEF TypeOK
  <2> QED BY <1>1, <1>4, <2>1, <2>2 DEF Filled, Current, gwVars
<1> QED BY <1>5, <1>6, <1>7, <1>8, <1>9

(* A step of a caller on its way that leaves all but its place, its return *)
(* value and its signal alone. *)
LEMMA CallerIInv ==
  ASSUME IInv, NEW c \in Clients, NEW p \in Places,
         UNCHANGED <<gwVars, table, ready, result, got, call, transid, calls, modem, strays>>,
         pc' = [pc EXCEPT ![c] = p],
         ret' \in [Clients -> Returns], token' \in [Clients -> BOOLEAN],
         \A d \in Clients \ {c} : ret'[d] = ret[d] /\ token'[d] = token[d],
         Live(c), p \in NotSent => pc[c] \in NotSent,
         p \in InTable <=> pc[c] \in InTable,
         p = "wait" => ~ ready[c], p = "result" => ready[c],
         p = "remove" /\ ret'[c] = "OK" /\ Current(c) => got[c] = call[c].seq
  PROVE  IInv'
<1> USE DEF IInv
<1>1. pc'[c] = p /\ \A d \in Clients \ {c} : pc'[d] = pc[d] BY DEF TypeOK
<1>2. TypeOK'
  <2>1. pc' \in [Clients -> Places] BY DEF TypeOK
  <2> QED BY <2>1 DEF TypeOK, gwVars
<1>3. Entries' BY <1>1, EntriesKept
<1>4. Bookkeeping' BY <1>1, BookkeepingKept DEF gwVars, Live, NotSent
<1>5. Signalled' BY <1>1 DEF Signalled
<1>6. Filled' BY <1>1 DEF Filled, Current, gwVars
<1> QED BY <1>2, <1>3, <1>4, <1>5, <1>6

(* The steps between the locks. *)
LEMMA CheckInitIInv ==
  ASSUME IInv, NEW c \in Clients, CheckInit(c), isinit PROVE IInv'
<1>1. /\ pc[c] = "cmd" /\ pc' = [pc EXCEPT ![c] = "add"]
      /\ UNCHANGED <<gwVars, table, entryVars, call, ret, transid, calls, modem, strays>>
  BY DEF CheckInit, Goto
<1>2. ret' \in [Clients -> Returns] /\ token' \in [Clients -> BOOLEAN]
  BY <1>1 DEF IInv, TypeOK, entryVars
<1> QED BY <1>1, <1>2, CallerIInv DEF Live, NotSent, InTable, Places, entryVars

(* The call ends before it has entered the table. *)
LEMMA NotInitialized ==
  ASSUME IInv, NEW c \in Clients, CheckInit(c), ~ isinit PROVE IInv'
<1> USE DEF IInv
<1>1. /\ pc[c] = "cmd" /\ pc' = [pc EXCEPT ![c] = "idle"]
      /\ ret' = [ret EXCEPT ![c] = "EPERM"]
      /\ UNCHANGED <<gwVars, table, entryVars, call, transid, calls, modem, strays>>
  BY DEF CheckInit, Goto
<1>2. pc'[c] = "idle" /\ \A d \in Clients \ {c} : pc'[d] = pc[d] /\ ret'[d] = ret[d]
  BY <1>1 DEF TypeOK
<1>3. TypeOK'
  <2>1. pc' \in [Clients -> Places] /\ ret' \in [Clients -> Returns]
    BY <1>1 DEF TypeOK, Places, Returns
  <2> QED BY <1>1, <2>1 DEF TypeOK, gwVars, entryVars
<1>4. Entries' BY <1>1, <1>2, EntriesKept DEF InTable
<1>5. Bookkeeping' BY <1>1, <1>2, BookkeepingKept DEF gwVars, Live, NotSent
<1>6. Signalled' BY <1>1, <1>2 DEF Signalled, entryVars
<1>7. Filled' BY <1>1, <1>2 DEF Filled, Current, gwVars, entryVars, InTable
<1> QED BY <1>3, <1>4, <1>5, <1>6, <1>7

(* hal_if->send: the command is now the modem's, or the caller gives up. *)
LEMMA HalSendIInv ==
  ASSUME IInv, NEW c \in Clients, HalSend(c) PROVE IInv'
<1> DEFINE own == [cmd |-> call[c].cmd, id |-> call[c].id, seq |-> call[c].seq]
<1>1. pc[c] = "send" /\ UNCHANGED <<gwVars, table, entryVars, call, transid, calls, strays>>
  BY DEF HalSend
<1>2. CASE modem' = modem \cup {own} /\ pc' = [pc EXCEPT ![c] = "check"] /\ UNCHANGED ret
  <2> USE DEF IInv
  <2>1. pc'[c] = "check" /\ \A d \in Clients \ {c} : pc'[d] = pc[d] BY <1>2 DEF TypeOK
  <2>2. /\ call[c].cmd \in Commands /\ call[c].seq \in 1..calls /\ call[c].id \in 0..MaxId
        /\ calls \in Nat /\ call[c].seq \in Nat
    BY <1>1 DEF Bookkeeping, Stamps, Live, TypeOK
  <2>3. call[c].id \in 1..MaxId BY <1>1 DEF Bookkeeping, Stamps, Live
  <2>4. TypeOK'
    <3>1. own \in [cmd : Commands, id : 1..MaxId, seq : Nat] BY <2>2, <2>3
    <3>2. modem' \subseteq [cmd : Commands, id : 1..MaxId, seq : Nat]
      BY <1>2, <3>1 DEF TypeOK
    <3>3. pc' \in [Clients -> Places] BY <1>2 DEF TypeOK, Places
    <3> QED BY <1>1, <1>2, <3>2, <3>3 DEF TypeOK, gwVars, entryVars
  <2>5. Entries' BY <1>1, <2>1, EntriesKept DEF InTable
  <2>6. own.cmd = call[c].cmd /\ own.id = call[c].id /\ own.seq = call[c].seq OBVIOUS
  <2> HIDE DEF own
  <2>7. Stamps'
    BY <1>1, <1>2, <2>1, <2>2, <2>6 DEF Bookkeeping, Stamps, Live, gwVars
  <2>8. Distinct' /\ NotStray'
    BY <1>1, <2>1 DEF Bookkeeping, Distinct, NotStray, Live
  <2>9. Own'
    <3> SUFFICES ASSUME NEW m \in modem', NEW d \in Clients, Live(d)'
                 PROVE  /\ m.id = call[d].id => m.seq = call[d].seq
                        /\ m.seq = call[d].seq => m.id = call[d].id /\ m.cmd = call[d].cmd
                        /\ pc'[d] \in NotSent => m.seq # call[d].seq
      BY <1>1 DEF Own
    <3>1. Live(d) /\ Live(c) BY <1>1, <2>1 DEF Live
    <3>2. pc'[d] \in NotSent => d # c /\ pc[d] \in NotSent BY <2>1 DEF NotSent
    <3>3. CASE m = own
      BY <2>6, <3>1, <3>2, <3>3 DEF Bookkeeping, Distinct
    <3>4. CASE m \in modem BY <3>1, <3>2, <3>4 DEF Bookkeeping, Own
    <3> QED BY <1>2, <3>3, <3>4
  <2>10. Signalled' BY <1>1, <2>1 DEF Signalled, entryVars
  <2>11. Filled' BY <1>1, <1>2, <2>1 DEF Filled, Current, InTable, entryVars, gwVars
  <2> QED BY <2>4, <2>5, <2>7, <2>8, <2>9, <2>10, <2>11 DEF Bookkeeping
<1>3. CASE modem' = modem /\ pc' = [pc EXCEPT ![c] = "remove"] /\ ret' = [ret EXCEPT ![c] = "EIO"]
  <2>1. /\ ret' \in [Clients -> Returns] /\ ret'[c] = "EIO" /\ token' = token
        /\ token' \in [Clients -> BOOLEAN]
        /\ \A d \in Clients \ {c} : ret'[d] = ret[d]
    BY <1>1, <1>3 DEF IInv, TypeOK, Returns, entryVars
  <2> QED BY <1>1, <1>3, <2>1, CallerIInv DEF Live, NotSent, InTable, Places, entryVars
<1> QED BY <1>1, <1>2, <1>3 DEF HalSend, Goto

(* The loop of apicmdgw_checktable, and the reading of the result. *)
LEMMA WaitingIInv ==
  ASSUME IInv, NEW c \in Clients, CheckTable(c) \/ Wake(c) \/ TimeOut(c) \/ ReadResult(c)
  PROVE  IInv'
<1>1. ret \in [Clients -> Returns] /\ token \in [Clients -> BOOLEAN]
  BY DEF IInv, TypeOK
<1>2. CASE CheckTable(c)
  <2>1. /\ pc[c] = "check"
        /\ pc' = [pc EXCEPT ![c] = IF ready[c] THEN "result" ELSE "wait"]
        /\ UNCHANGED <<gwVars, table, entryVars, call, ret, transid, calls, modem, strays>>
    BY <1>2 DEF CheckTable, Goto
  <2>2. CASE ready[c]
    BY <1>1, <2>1, <2>2, CallerIInv DEF Live, NotSent, InTable, Places, entryVars
  <2>3. CASE ~ ready[c]
    BY <1>1, <2>1, <2>3, CallerIInv DEF Live, NotSent, InTable, Places, entryVars
  <2> QED BY <2>2, <2>3
<1>3. CASE Wake(c)
  <2>1. /\ pc[c] = "wait" /\ pc' = [pc EXCEPT ![c] = "check"]
        /\ token' = [token EXCEPT ![c] = FALSE]
        /\ UNCHANGED <<gwVars, table, ready, result, got, call, ret, transid, calls, modem,
                       strays>>
    BY <1>3 DEF Wake, Goto
  <2>2. token' \in [Clients -> BOOLEAN] /\ \A d \in Clients \ {c} : token'[d] = token[d]
    BY <1>1, <2>1
  <2> QED BY <1>1, <2>1, <2>2, CallerIInv DEF Live, NotSent, InTable, Places
<1>4. CASE TimeOut(c)
  <2>1. /\ pc[c] = "wait" /\ pc' = [pc EXCEPT ![c] = "remove"]
        /\ ret' = [ret EXCEPT ![c] = "ETIMEDOUT"]
        /\ UNCHANGED <<gwVars, table, entryVars, call, transid, calls, modem, strays>>
    BY <1>4 DEF TimeOut, Goto
  <2>2. /\ ret' \in [Clients -> Returns] /\ ret'[c] = "ETIMEDOUT"
        /\ \A d \in Clients \ {c} : ret'[d] = ret[d]
    BY <1>1, <2>1 DEF Returns
  <2> QED BY <1>1, <2>1, <2>2, CallerIInv DEF Live, NotSent, InTable, Places, entryVars
<1>5. CASE ReadResult(c)
  <2> DEFINE r == IF ~ isinit THEN "ECONNABORTED" ELSE IF result[c] # 0 THEN "ENOSPC" ELSE "OK"
  <2>1. /\ pc[c] = "result" /\ pc' = [pc EXCEPT ![c] = "remove"]
        /\ ret' = [ret EXCEPT ![c] = r]
        /\ UNCHANGED <<gwVars, table, entryVars, call, transid, calls, modem, strays>>
    BY <1>5 DEF ReadResult, Goto
  <2>2. r \in Returns /\ (r = "OK" => isinit /\ result[c] = 0) BY DEF Returns
  <2> HIDE DEF r
  <2>3. /\ ret' \in [Clients -> Returns] /\ ret'[c] = r
        /\ \A d \in Clients \ {c} : ret'[d] = ret[d]
    BY <1>1, <2>1, <2>2
  <2>4. ret'[c] = "OK" /\ Current(c) => got[c] = call[c].seq
    BY <2>1, <2>2, <2>3 DEF IInv, Filled, Signalled, InTable
  <2> QED BY <1>1, <2>1, <2>3, <2>4, CallerIInv DEF Live, NotSent, InTable, Places, entryVars
<1> QED BY <1>2, <1>3, <1>4, <1>5

(* apicmdgw_remtable. *)
LEMMA RemTableIInv ==
  ASSUME IInv, NEW c \in Clients, RemTable(c) PROVE IInv'
<1> USE DEF IInv
<1>1. PICK k \in DOMAIN table :
        /\ pc[c] = "remove" /\ pc' = [pc EXCEPT ![c] = "idle"]
        /\ table[k] = c /\ table' = RemoveAt(table, k)
        /\ UNCHANGED <<gwVars, entryVars, call, ret, transid, calls, modem, strays>>
  BY DEF RemTable, Goto
<1>2. /\ table' \in Seq(Clients)
      /\ ToSet(table') = ToSet(table) \ {c}
      /\ \A i, j \in DOMAIN table' : table'[i] = table'[j] => i = j
  <2>1. table \in Seq(Clients) /\ \A i, j \in DOMAIN table : table[i] = table[j] => i = j
    BY DEF TypeOK, Entries
  <2> QED BY <1>1, <2>1, EntryRemoved
<1>3. pc'[c] = "idle" /\ \A d \in Clients \ {c} : pc'[d] = pc[d] BY <1>1 DEF TypeOK
<1>4. TypeOK'
  <2>1. pc' \in [Clients -> Places] BY <1>1 DEF TypeOK, Places
  <2> QED BY <1>1, <1>2, <2>1 DEF TypeOK, gwVars, entryVars
<1>5. Entries' BY <1>2, <1>3 DEF Entries, InTable
<1>6. Bookkeeping' BY <1>1, <1>3, BookkeepingKept DEF gwVars, Live, NotSent
<1>7. Signalled' BY <1>1, <1>3 DEF Signalled, entryVars
<1>8. Filled' BY <1>1, <1>3 DEF Filled, Current, gwVars, entryVars, InTable
<1> QED BY <1>4, <1>5, <1>6, <1>7, <1>8

(* The receive task writes a response, or an error, into an entry: it is   *)
(* the response to the call whose entry it is.                             *)
LEMMA WriteEntryIInv ==
  ASSUME IInv, NEW c \in ToSet(table), NEW n \in Nat, NEW fits \in BOOLEAN,
         n = call[c].seq, WriteEntry(c, n, fits), modem' \subseteq modem,
         UNCHANGED <<gwVars, table, callVars, transid, calls, strays>>
  PROVE  IInv'
<1> USE DEF IInv
<1>1. c \in Clients /\ pc[c] \in InTable BY DEF Entries
<1>2. /\ ready' = [ready EXCEPT ![c] = ready[c] \/ fits]
      /\ result' = [result EXCEPT ![c] = IF fits THEN 0 ELSE 1]
      /\ got' = [got EXCEPT ![c] = IF fits THEN n ELSE got[c]]
      /\ token' = [token EXCEPT ![c] = TRUE]
  BY DEF WriteEntry
<1>3. TypeOK'
  <2>1. ready[c] \in BOOLEAN /\ got[c] \in Nat BY <1>1 DEF TypeOK
  <2>2. (ready[c] \/ fits) \in BOOLEAN BY <2>1
  <2>3. ready' \in [Clients -> BOOLEAN] BY <1>2, <2>2, Zenon DEF TypeOK
  <2>4. /\ result' \in [Clients -> {0, 1}] /\ got' \in [Clients -> Nat]
        /\ token' \in [Clients -> BOOLEAN]
    BY <1>2, <2>1 DEF TypeOK
  <2>5. modem' \subseteq [cmd : Commands, id : 1..MaxId, seq : Nat] BY DEF TypeOK
  <2> QED BY <2>3, <2>4, <2>5 DEF TypeOK, gwVars, callVars
<1>4. Entries' BY EntriesKept DEF callVars
<1>5. Bookkeeping'
  <2>1. Stamps' BY DEF Bookkeeping, Stamps, callVars, gwVars, Live
  <2>2. Distinct' /\ NotStray' BY DEF Bookkeeping, Distinct, NotStray, callVars, Live
  <2>3. Own' BY DEF Bookkeeping, Own, callVars, Live
  <2> QED BY <2>1, <2>2, <2>3 DEF Bookkeeping
<1>6. \A d \in Clients : d # c => /\ ready'[d] = ready[d] /\ result'[d] = result[d]
                                 /\ got'[d] = got[d] /\ token'[d] = token[d]
  BY <1>2 DEF TypeOK
<1>7. /\ ready[c] => ready'[c]
      /\ token'[c]
      /\ result'[c] = 0 => fits /\ got'[c] = n
      /\ got'[c] = n \/ got'[c] = got[c]
  BY <1>1, <1>2 DEF TypeOK
<1>8. Signalled' BY <1>6, <1>7 DEF Signalled, callVars
<1>9. Filled'
  <2> SUFFICES ASSUME NEW d \in Clients
               PROVE  /\ pc[d] \in InTable /\ Current(d) /\ isinit /\ ready'[d]
                            /\ result'[d] = 0 => got'[d] = call[d].seq
                      /\ pc[d] = "remove" /\ ret[d] = "OK" /\ Current(d)
                           => got'[d] = call[d].seq
    BY DEF Filled, Current, callVars, gwVars
  <2>1. CASE d = c BY <1>7, <2>1 DEF Filled
  <2>2. CASE d # c BY <1>6, <2>2 DEF Filled
  <2> QED BY <2>1, <2>2
<1> QED BY <1>3, <1>4, <1>5, <1>8, <1>9

(* A message for which there is no entry goes to the dispatcher. *)
LEMMA StrayIInv ==
  ASSUME IInv, NEW n \in Nat, n <= calls, \A c \in Clients : Live(c) => call[c].seq # n,
         strays' = strays \cup {n}, modem' \subseteq modem,
         UNCHANGED <<gwVars, table, entryVars, callVars, transid, calls>>
  PROVE  IInv'
<1> USE DEF IInv
<1>1. TypeOK'
  <2>1. strays' \subseteq Nat /\ modem' \subseteq [cmd : Commands, id : 1..MaxId, seq : Nat]
    BY DEF TypeOK
  <2> QED BY <2>1 DEF TypeOK, gwVars, entryVars, callVars
<1>2. Entries' BY EntriesKept DEF callVars
<1>3. Stamps' BY DEF Bookkeeping, Stamps, callVars, gwVars, Live
<1>4. Distinct' BY DEF Bookkeeping, Distinct, callVars, Live
<1>5. NotStray' BY DEF Bookkeeping, NotStray, callVars, Live
<1>6. Own' BY DEF Bookkeeping, Own, callVars, Live
<1>7. Signalled' BY DEF Signalled, entryVars, callVars
<1>8. Filled' BY DEF Filled, Current, entryVars, callVars, gwVars
<1> QED BY <1>1, <1>2, <1>3, <1>4, <1>5, <1>6, <1>7, <1>8 DEF Bookkeeping

(* The modem answers: the entry found is the entry of the command; if none *)
(* is found, its caller is gone. *)
LEMMA AnswerIInv ==
  ASSUME IInv, NEW m \in modem, NEW fits \in BOOLEAN, Answer(m, fits) PROVE IInv'
<1>1. /\ modem' = modem \ {m}
      /\ WriteTable(m.cmd, m.id, m.seq, fits)
      /\ UNCHANGED <<gwVars, table, callVars, transid, calls>>
  BY DEF Answer
<1>2. TypeOK /\ m.seq \in Nat BY DEF IInv, TypeOK
<1>3. modem' \subseteq modem BY <1>1
<1>4. CASE FirstMatch(m.cmd, m.id) = {}
  <2>1. strays' = strays \cup {m.seq} /\ UNCHANGED entryVars BY <1>1, <1>4 DEF WriteTable
  <2>2. ASSUME NEW c \in Clients, Live(c) PROVE call[c].seq # m.seq
    <3> SUFFICES ASSUME call[c].seq = m.seq PROVE FALSE OBVIOUS
    <3>1. m.id = call[c].id /\ m.cmd = call[c].cmd /\ pc[c] \notin NotSent
      BY <2>2 DEF IInv, Bookkeeping, Own
    <3>2. c \in ToSet(table)
      BY <2>2, <3>1 DEF IInv, Entries, TypeOK, Places, InTable, NotSent, Live
    <3>3. ~ Matches(c, m.cmd, m.id) BY <1>2, <1>4, <3>2, FirstMatchIs
    <3> QED BY <3>1, <3>3 DEF Matches
  <2>3. m.seq <= calls BY DEF IInv, Bookkeeping, Stamps
  <2> QED BY <1>1, <1>2, <1>3, <2>1, <2>2, <2>3, StrayIInv
<1>5. CASE FirstMatch(m.cmd, m.id) # {}
  <2>1. PICK c \in FirstMatch(m.cmd, m.id) : WriteEntry(c, m.seq, fits)
    BY <1>1, <1>5 DEF WriteTable
  <2>2. UNCHANGED strays BY <1>1, <1>5 DEF WriteTable
  <2>3. c \in ToSet(table) /\ Matches(c, m.cmd, m.id) BY <1>2, FirstMatchIs
  <2>4. c \in Clients /\ Live(c) BY <2>3 DEF IInv, Entries, Live, InTable
  <2>5. m.seq = call[c].seq BY <2>3, <2>4 DEF IInv, Bookkeeping, Own, Matches
  <2> QED BY <1>1, <1>2, <1>3, <2>1, <2>2, <2>3, <2>5, WriteEntryIInv
<1> QED BY <1>4, <1>5

(* An event is taken for no answer, whatever its number. *)
LEMMA EventIInv ==
  ASSUME IInv, NEW id \in 1..MaxId, Event(id) PROVE IInv'
<1>1. /\ WriteTable(EventId, id, 0, TRUE)
      /\ UNCHANGED <<gwVars, table, callVars, transid, calls, modem>>
  BY DEF Event
<1>2. FirstMatch(EventId, id) = {}
  <2> SUFFICES ASSUME NEW c \in FirstMatch(EventId, id) PROVE FALSE OBVIOUS
  <2>1. c \in ToSet(table) /\ call[c].cmd = EventId
    BY FirstMatchIs DEF IInv, Matches
  <2>2. call[c].cmd \in Commands
    BY <2>1 DEF IInv, Entries, Bookkeeping, Stamps, Live, InTable
  <2> QED BY <2>1, <2>2, BlockTblAssumption
<1>3. strays' = strays \cup {0} /\ UNCHANGED entryVars BY <1>1, <1>2 DEF WriteTable
<1>4. calls \in Nat /\ \A c \in Clients : Live(c) => call[c].seq \in 1..calls
  BY DEF IInv, TypeOK, Bookkeeping, Stamps
<1>5. 0 \in Nat /\ 0 <= calls /\ \A c \in Clients : Live(c) => call[c].seq # 0 BY <1>4
<1> QED BY <1>1, <1>3, <1>5, StrayIInv

(* What apicmdgw_fin, apicmdgw_init and the receive task's end leave: the  *)
(* table and the calls; an initialization that begins makes all calls that *)
(* are inside old ones. *)
LEMMA GatewayIInv ==
  ASSUME IInv, RecvEnd \/ FinNext \/ \E c \in Clients : Perish(c) PROVE IInv'
<1> USE DEF IInv
<1>1. /\ UNCHANGED <<table, pc, call, ret, result, got, transid, calls, modem, strays>>
      /\ recvRun' \in {"run", "abort", "end"}
      /\ fin' \in {"off", "abort", "join", "release", "delete", "done"}
      /\ isinit' \in BOOLEAN /\ inits' \in Nat /\ gone' \subseteq Clients
      /\ isinit' <=> fin' = "off"
      /\ \/ inits' = inits /\ (isinit' => isinit)
         \/ inits' = inits + 1
  <2>1. /\ isinit \in BOOLEAN /\ inits \in Nat /\ gone \subseteq Clients
        /\ recvRun \in {"run", "abort", "end"} /\ (isinit <=> fin = "off")
        /\ fin \in {"off", "abort", "join", "release", "delete", "done"}
    BY DEF TypeOK, Bookkeeping, Stamps
  <2> USE DEF FinStep, entryVars, callVars
  <2>2. CASE RecvEnd BY <2>1, <2>2 DEF RecvEnd
  <2>3. CASE FinBegin BY <2>1, <2>3 DEF FinBegin
  <2>4. CASE FinAbort BY <2>1, <2>4 DEF FinAbort
  <2>5. CASE FinJoin BY <2>1, <2>5 DEF FinJoin
  <2>6. CASE FinRelease BY <2>1, <2>6 DEF FinRelease
  <2>7. CASE FinDelete BY <2>1, <2>7 DEF FinDelete
  <2>8. CASE Reinit BY <2>1, <2>8 DEF Reinit
  <2>9. ASSUME NEW c \in Clients, Perish(c) PROVE UNCHANGED <<isinit, recvRun, fin, inits, table,
                                                            entryVars, callVars, transid,
                                                            calls, modem, strays>>
                                                /\ gone' \subseteq Clients
    BY <2>1, <2>9 DEF Perish
  <2>10. CASE \E c \in Clients : Perish(c) BY <2>1, <2>9, <2>10
  <2> QED BY <2>2, <2>3, <2>4, <2>5, <2>6, <2>7, <2>8, <2>10 DEF FinNext
<1>2. /\ ready' \in [Clients -> BOOLEAN] /\ token' \in [Clients -> BOOLEAN]
      /\ \A c \in Clients : /\ ready'[c] => ready[c] \/ token'[c]
                            /\ ready[c] => ready'[c]
                            /\ token[c] => token'[c]
      /\ isinit' => ready' = ready
  <2>1. CASE FinRelease
    <3>1. /\ ready' = [c \in Clients |-> ready[c] \/ Contains(table, c)]
          /\ token' = [c \in Clients |-> token[c] \/ Contains(table, c)]
          /\ isinit' = isinit /\ fin = "release"
      BY <2>1 DEF FinRelease, FinStep
    <3>2. ~ isinit BY <3>1 DEF Bookkeeping, Stamps
    <3>3. \A c \in Clients : ready[c] \in BOOLEAN /\ token[c] \in BOOLEAN BY DEF TypeOK
    <3>4. \A c \in Clients : Contains(table, c) \in BOOLEAN BY DEF Contains
    <3>5. \A c \in Clients : /\ ready'[c] <=> ready[c] \/ Contains(table, c)
                            /\ token'[c] <=> token[c] \/ Contains(table, c)
      BY <3>1, <3>3, <3>4, Zenon
    <3>6. ready' \in [Clients -> BOOLEAN] /\ token' \in [Clients -> BOOLEAN]
      BY <3>1, <3>3, <3>4, Zenon
    <3> QED BY <3>1, <3>2, <3>5, <3>6
  <2>2. CASE UNCHANGED <<ready, token>> BY <2>2 DEF TypeOK
  <2> QED BY <2>1, <2>2 DEF RecvEnd, FinNext, FinBegin, FinAbort, FinJoin, FinDelete, Reinit,
                            Perish, entryVars
<1>3. TypeOK' BY <1>1, <1>2 DEF TypeOK
<1>4. Entries' BY <1>1, EntriesKept
<1>5. inits \in Nat BY DEF TypeOK
<1>6. Stamps'
  <2> SUFFICES ASSUME NEW c \in Clients, Live(c) PROVE call[c].epoch <= inits'
    BY <1>1 DEF Bookkeeping, Stamps, Live
  <2>1. call[c].epoch <= inits /\ call[c].epoch \in Nat
    BY DEF Bookkeeping, Stamps, TypeOK
  <2> QED BY <1>1, <1>5, <2>1
<1>7. Distinct' BY <1>1 DEF Bookkeeping, Distinct, Live
<1>8. NotStray' BY <1>1 DEF Bookkeeping, NotStray, Live
<1>9. Own' BY <1>1 DEF Bookkeeping, Own, Live
<1>10. Signalled' BY <1>1, <1>2 DEF Signalled
<1>11. Filled'
  <2>1. CASE inits' = inits /\ (isinit' => isinit)
    BY <1>1, <1>2, <2>1 DEF Filled, Current
  <2>2. CASE inits' = inits + 1
    <3>1. \A c \in Clients : Live(c) => ~ Current(c)'
      BY <1>1, <1>5, <2>2 DEF Bookkeeping, Stamps, Current, TypeOK
    <3>2. \A c \in Clients : pc[c] \in InTable => Live(c) BY DEF InTable, Live
    <3> QED BY <1>1, <3>1, <3>2 DEF Filled, Live
  <2> QED BY <1>1, <2>1, <2>2
<1> QED BY <1>3, <1>4, <1>6, <1>7, <1>8, <1>9, <1>10, <1>11 DEF Bookkeeping

(* Every step keeps the invariant. *)
LEMMA NextIInv == IInv /\ [Next]_vars => IInv'
<1> SUFFICES ASSUME IInv, [Next]_vars PROVE IInv' OBVIOUS
<1>1. CASE UNCHANGED vars
  <2> USE <1>1 DEF vars, gwVars, entryVars, callVars, IInv
  <2>1. TypeOK' BY DEF TypeOK
  <2>2. Entries' BY EntriesKept
  <2>3. Bookkeeping' BY BookkeepingKept DEF Live
  <2>4. Signalled' BY DEF Signalled
  <2>5. Filled' BY DEF Filled, Current
  <2> QED BY <2>1, <2>2, <2>3, <2>4, <2>5
<1>2. ASSUME NEW c \in Clients, NEW cmd \in Commands, NEW isTimed \in BOOLEAN,
             AllocCmd(c, cmd, isTimed)
      PROVE  IInv'
  BY <1>2, AllocCmdIInv
<1>3. ASSUME NEW c \in Clients, InCall(c) PROVE IInv'
  <2>1. CASE CheckInit(c) BY <2>1, CheckInitIInv, NotInitialized
  <2>2. CASE AddTable(c) BY <2>2, AddTableIInv
  <2>3. CASE HalSend(c) BY <2>3, HalSendIInv
  <2>4. CASE CheckTable(c) \/ Wake(c) \/ TimeOut(c) \/ ReadResult(c) BY <2>4, WaitingIInv
  <2>5. CASE RemTable(c) BY <2>5, RemTableIInv
  <2>6. CASE Perish(c) BY <2>6, GatewayIInv
  <2> QED BY <1>3, <2>1, <2>2, <2>3, <2>4, <2>5, <2>6 DEF InCall
<1>4. CASE RecvStep
  <2>1. ASSUME NEW m \in modem, NEW fits \in BOOLEAN, Answer(m, fits) PROVE IInv'
    BY <2>1, AnswerIInv
  <2>2. ASSUME NEW id \in 1..MaxId, Event(id) PROVE IInv' BY <2>2, EventIInv
  <2>3. CASE RecvEnd BY <2>3, GatewayIInv
  <2> QED BY <1>4, <2>1, <2>2, <2>3 DEF RecvStep
<1>5. CASE FinNext BY <1>5, GatewayIInv
<1> QED BY <1>1, <1>2, <1>3, <1>4, <1>5 DEF Next, ClientStep

(* The bookkeeping of apicmdgw.c, with the numbers of the calls, is        *)
(* inductive (apicmdgw.c:297-551, 822-960). *)
THEOREM Invariant == Spec => []IInv
<1>1. Init => IInv BY InitIInv
<1>2. IInv /\ [Next]_vars => IInv' BY NextIInv
<1> QED BY <1>1, <1>2, PTL DEF Spec

(* An entry is in the wait table, once, exactly while its owner is in the  *)
(* call whose stack it is on (apicmdgw.c:867-868, 875-960). *)
THEOREM EntriesAreLive == Spec => []TableIsLive
<1>1. IInv => TableIsLive BY DEF IInv, Entries, TableIsLive
<1> QED BY <1>1, Invariant, PTL

(* No response to a call under way goes to the dispatcher, and no caller   *)
(* sleeps on a ready entry without a signal (apicmdgw.c:461-544). *)
THEOREM NoAnswerIsLost == Spec => []NoLostAnswer
<1>1. IInv => NoLostAnswer
  BY DEF IInv, Bookkeeping, NotStray, Signalled, NoLostAnswer, Live
<1> QED BY <1>1, Invariant, PTL

(* A call that succeeds in its own initialization has the response to its  *)
(* own command: no event, no late response, no other caller's              *)
(* (apicmdgw.c:450-480, 925-950). *)
THEOREM AnswersAreOwn == Spec => []AnswerIsOwn
<1>1. IInv => AnswerIsOwn BY DEF IInv, Filled, AnswerIsOwn, Current
<1> QED BY <1>1, Invariant, PTL
-----------------------------------------------------------------------------
(***************************************************************************)
(* Nobody sleeps on g_stateCond for nothing, and the echo test decides,    *)
(* for any number of tasks, tries and initializations.  Whoever sleeps     *)
(* without a wake-up has seen the state ECHO_TESTING, and then the echo    *)
(* task of this initialization is at work or could not be created; the     *)
(* echo tasks of earlier ones can only end the test sooner.                *)
(***************************************************************************)

Running == {"loop", "ask", "asked", "sleep", "answered"}

(* An echo task that has not left its loop has tries left.                 *)
TriesLeft ==
  \A e \in Epochs :
    /\ echo[e] = "none" => tries[e] = 0
    /\ echo[e] \in Running => tries[e] <= RetryCnt

(* The echo task of an initialization is created by its first command.     *)
NotYet ==
  /\ \A e \in Epochs : e > epoch => echo[e] = "none"
  /\ gw = "INIT" => echo[epoch] = "none"

FinOrder ==
  /\ finAt # "off" => ~ g_isinit
  /\ finAt = "done" => place[RecvTask] = "end"
  /\ finAt \in {"join", "done"} => gw \in {"FIN", "COMPLETED"}

Testing ==
  /\ Sleepers \subseteq signalled \/ gw = "ECHO_TESTING"
  /\ gw = "ECHO_TESTING" =>
       NoEchoTask \/ (AtWork(epoch) /\ (echo[epoch] = "over" => Exceeded(epoch)))

FirstEchoed ==
  epoch = 1 =>
    /\ gw = "COMPLETED" => echoed
    /\ \A e \in Epochs : echo[e] = "answered" => echoed
    /\ \A t \in Tasks : place[t] = "send" => echoed

GaveUp == g_isinit /\ gw = "FIN" => \E e \in Epochs : tries[e] >= RetryCnt

GwIInv == GwTypeOK /\ TriesLeft /\ NotYet /\ FinOrder /\ Testing /\ FirstEchoed /\ GaveUp

(* The invariant holds at the start. *)
LEMMA GwInitIInv == GwInit => GwIInv
<1> SUFFICES ASSUME GwInit PROVE GwIInv OBVIOUS
<1> USE GwStateAssumption
<1>1. 1 \in Epochs BY DEF Epochs
<1>2. Sleepers = {} BY DEF GwInit, Sleepers
<1>3. GwTypeOK
  <2>1. gw \in {"INIT", "COMPLETED"} /\ echoed \in BOOLEAN BY DEF GwInit, FirstState
  <2>2. /\ g_isinit = TRUE /\ abort = FALSE /\ finAt = "off" /\ epoch \in Epochs
        /\ timed = {} /\ signalled = {}
    BY <1>1 DEF GwInit
  <2>3. 0 \in 0 .. RetryCnt + 1 OBVIOUS
  <2>4. tries \in [Epochs -> 0 .. RetryCnt + 1] BY <2>3 DEF GwInit
  <2>5. place \in [Tasks -> {"idle"}] /\ echo \in [Epochs -> {"none"}] BY DEF GwInit
  <2> QED BY <2>1, <2>2, <2>4, <2>5 DEF GwTypeOK
<1>4. TriesLeft BY DEF GwInit, TriesLeft, Running
<1>5. NotYet /\ FinOrder /\ FirstEchoed /\ GaveUp
  BY <1>1 DEF GwInit, NotYet, FinOrder, FirstEchoed, GaveUp, FirstState, Epochs
<1>6. Testing BY <1>2 DEF GwInit, Testing, FirstState
<1> QED BY <1>3, <1>4, <1>5, <1>6 DEF GwIInv

(* What the steps of a command leave alone. *)
LEMMA TaskStep ==
  ASSUME GwIInv, UNCHANGED <<gw, finVars, echoVars>>, GwTypeOK',
         Sleepers' \subseteq signalled' \/ gw = "ECHO_TESTING",
         place[RecvTask] = "end" => place'[RecvTask] = "end",
         \A t \in Tasks : place'[t] = "send" => place[t] = "send" \/ gw = "COMPLETED"
  PROVE  GwIInv'
<1> USE GwStateAssumption DEF GwIInv, finVars, echoVars
<1>1. TriesLeft' /\ NotYet' /\ GaveUp'
  BY DEF TriesLeft, NotYet, GaveUp
<1>2. FinOrder' BY DEF FinOrder
<1>3. Testing' BY DEF Testing, NoEchoTask, AtWork, Exceeded
<1>4. FirstEchoed' BY DEF FirstEchoed
<1> QED BY <1>1, <1>2, <1>3, <1>4

(* A command goes from one of its steps to the next. *)
LEMMA CommandStep ==
  ASSUME GwIInv, NEW t \in Tasks,
         \/ t \in Senders /\ \E isTimed \in BOOLEAN : Call(t, isTimed)
         \/ EnterTesting(t) \/ EnterCompleted(t) \/ EnterFin(t)
         \/ WakeUp(t) \/ GiveUp(t) \/ Send(t)
  PROVE  GwIInv'
<1> USE GwStateAssumption DEF GwIInv, TaskGoto, finVars, echoVars
<1>1. CASE t \in Senders /\ \E isTimed \in BOOLEAN : Call(t, isTimed)
  <2>1. PICK b \in BOOLEAN : Call(t, b) BY <1>1
  <2>2. Sleepers' = Sleepers BY <2>1 DEF Call, Sleepers, GwTypeOK
  <2>3. GwTypeOK' BY <1>1, <2>1, <2>2 DEF Call, GwTypeOK
  <2> QED BY <2>1, <2>2, <2>3, TaskStep DEF Call, Testing, GwTypeOK, Tasks
<1>2. CASE EnterTesting(t)
  <2>1. Sleepers' = Sleepers \cup {t} BY <1>2 DEF EnterTesting, Sleepers, GwTypeOK
  <2>2. GwTypeOK' BY <1>2, <2>1 DEF EnterTesting, GwTypeOK
  <2> QED BY <1>2, <2>2, TaskStep DEF EnterTesting, GwTypeOK
<1>3. CASE EnterCompleted(t)
  <2>1. Sleepers' = Sleepers BY <1>3 DEF EnterCompleted, Sleepers, GwTypeOK
  <2>2. GwTypeOK' BY <1>3, <2>1 DEF EnterCompleted, GwTypeOK
  <2> QED BY <1>3, <2>1, <2>2, TaskStep DEF EnterCompleted, Testing, GwTypeOK
<1>4. CASE EnterFin(t) \/ Send(t)
  <2>0. /\ UNCHANGED <<gw, finVars, echoVars, timed, signalled>>
        /\ place[t] # "end" /\ place[t] # "wait" /\ place' = [place EXCEPT ![t] = "idle"]
    BY <1>4 DEF EnterFin, Send
  <2>1. Sleepers' = Sleepers BY <2>0 DEF Sleepers, GwTypeOK
  <2>2. GwTypeOK' BY <2>0, <2>1 DEF GwTypeOK
  <2>3. place[RecvTask] = "end" => place'[RecvTask] = "end" BY <2>0 DEF GwTypeOK
  <2>4. \A u \in Tasks : place'[u] = "send" => place[u] = "send" BY <2>0 DEF GwTypeOK
  <2> QED BY <2>0, <2>1, <2>2, <2>3, <2>4, TaskStep DEF Testing
<1>5. CASE WakeUp(t)
  <2>1. Sleepers' = Sleepers \ {t} BY <1>5 DEF WakeUp, Sleepers, GwTypeOK
  <2>2. GwTypeOK' BY <1>5, <2>1 DEF WakeUp, GwTypeOK
  <2> QED BY <1>5, <2>1, <2>2, TaskStep DEF WakeUp, Testing, GwTypeOK
<1>6. CASE GiveUp(t)
  <2>1. Sleepers' = Sleepers \ {t} BY <1>6 DEF GiveUp, Sleepers, GwTypeOK
  <2>2. GwTypeOK' BY <1>6, <2>1 DEF GiveUp, GwTypeOK
  <2> QED BY <1>6, <2>1, <2>2, TaskStep DEF GiveUp, Testing, GwTypeOK
<1> QED BY <1>1, <1>2, <1>3, <1>4, <1>5, <1>6

(* The receive task reads a damaged frame, or ends. *)
LEMMA GwRecvStep ==
  ASSUME GwIInv, BadFrame \/ ErrInd \/ GwRecvEnd
  PROVE  GwIInv'
<1> USE GwStateAssumption DEF GwIInv, TaskGoto
<1>0. RecvTask \in Tasks BY DEF Tasks
<1>1. Sleepers' = Sleepers BY <1>0 DEF BadFrame, ErrInd, GwRecvEnd, Sleepers, GwTypeOK
<1>2. /\ UNCHANGED <<gw, finVars, echoVars, timed, signalled>>
      /\ \E p \in {"errind", "gone", "enter", "end"} : place' = [place EXCEPT ![RecvTask] = p]
      /\ place[RecvTask] # "end"
  BY DEF BadFrame, ErrInd, GwRecvEnd
<1>3. GwTypeOK' BY <1>1, <1>2 DEF GwTypeOK, finVars, echoVars
<1> QED BY <1>0, <1>1, <1>2, <1>3, TaskStep DEF Testing, GwTypeOK

(* The first command creates the echo task. *)
LEMMA EnterInitStep ==
  ASSUME GwIInv, NEW t \in Tasks, EnterInit(t)
  PROVE  GwIInv'
<1> USE GwStateAssumption DEF GwIInv, EnterInit, EchoGoto, finVars, taskVars
<1>0. echo[epoch] = "none" /\ tries[epoch] = 0 /\ epoch \in Epochs
  BY DEF NotYet, TriesLeft, GwTypeOK
<1>1. Sleepers' = Sleepers BY DEF Sleepers
<1>2. GwTypeOK' BY <1>1 DEF GwTypeOK
<1>3. TriesLeft' BY <1>0 DEF TriesLeft, Running, GwTypeOK
<1>4. NotYet' BY <1>0 DEF NotYet, GwTypeOK, Epochs
<1>5. Testing' BY <1>0 DEF Testing, NoEchoTask, AtWork, GwTypeOK
<1>6. FinOrder' BY DEF FinOrder
<1>7. FirstEchoed' BY <1>0 DEF FirstEchoed, GwTypeOK
<1>8. GaveUp' BY DEF GaveUp
<1> QED BY <1>2, <1>3, <1>4, <1>5, <1>6, <1>7, <1>8

(* An echo task goes on in its loop: the state is as it was. *)
LEMMA EchoLoopStep ==
  ASSUME GwIInv, NEW e \in Epochs,
         EchoLoop(e) \/ EchoAsk(e) \/ EchoFails(e) \/ EchoSleep(e) \/ EchoAnswer(e)
  PROVE  GwIInv'
<1> USE GwStateAssumption DEF GwIInv, EchoGoto, finVars, taskVars,
        EchoLoop, EchoAsk, EchoFails, EchoSleep, EchoAnswer
<1>1. UNCHANGED <<gw, finVars, taskVars, signalled>> OBVIOUS
<1>2. Sleepers' = Sleepers BY <1>1 DEF Sleepers
<1>3. \A d \in Epochs : tries[d] \in Nat /\ tries'[d] \in Nat /\ tries[d] <= tries'[d]
  BY DEF GwTypeOK
<1>4. echo[e] # "none" /\ echo'[e] # "none"
      /\ \A d \in Epochs \ {e} : echo'[d] = echo[d] /\ tries'[d] = tries[d]
  BY DEF GwTypeOK
<1>5. GwTypeOK'
  <2>1. tries' \in [Epochs -> 0 .. RetryCnt + 1]
    BY DEF GwTypeOK, TriesLeft, Running
  <2> QED BY <1>1, <1>2, <2>1 DEF GwTypeOK
<1>6. TriesLeft'
  <2> SUFFICES ASSUME NEW d \in Epochs
               PROVE  /\ echo'[d] = "none" => tries'[d] = 0
                      /\ echo'[d] \in Running => tries'[d] <= RetryCnt
    BY DEF TriesLeft
  <2>1. CASE d # e BY <2>1, <1>4 DEF TriesLeft
  <2>2. CASE d = e BY <2>2, <1>4 DEF TriesLeft, GwTypeOK, Running
  <2> QED BY <2>1, <2>2
<1>7. NotYet'
  <2>1. \A d \in Epochs : d > epoch => d # e BY <1>4 DEF NotYet
  <2>2. gw = "INIT" => epoch # e BY <1>4 DEF NotYet
  <2> QED BY <2>1, <2>2, <1>1, <1>4 DEF NotYet, GwTypeOK
<1>8. FinOrder' BY <1>1 DEF FinOrder
<1>9. Testing'
  <2> SUFFICES ASSUME gw = "ECHO_TESTING"
               PROVE  NoEchoTask' \/ (AtWork(epoch)' /\ (echo[epoch] = "over" => Exceeded(epoch))')
    BY <1>1, <1>2 DEF Testing
  <2>1. CASE epoch # e BY <2>1, <1>1, <1>4 DEF Testing, NoEchoTask, AtWork, Exceeded, GwTypeOK
  <2>2. CASE epoch = e BY <2>2, <1>1, <1>3 DEF Testing, NoEchoTask, AtWork, Exceeded, GwTypeOK
  <2> QED BY <2>1, <2>2
<1>10. FirstEchoed' BY <1>1 DEF FirstEchoed, GwTypeOK
<1>11. GaveUp' BY <1>1, <1>3 DEF GaveUp
<1> QED BY <1>5, <1>6, <1>7, <1>8, <1>9, <1>10, <1>11

(* An echo was answered: everybody is woken. *)
LEMMA EchoCompleteStep ==
  ASSUME GwIInv, NEW e \in Epochs, EchoComplete(e)
  PROVE  GwIInv'
<1> USE GwStateAssumption DEF GwIInv, EchoComplete, EchoGoto, SetState, finVars, taskVars
<1>1. Sleepers' = Sleepers /\ signalled' = Sleepers BY DEF Sleepers
<1>2. GwTypeOK' BY <1>1 DEF GwTypeOK
<1>3. TriesLeft' BY DEF TriesLeft, GwTypeOK, Running
<1>4. NotYet' BY DEF NotYet, GwTypeOK
<1>5. FinOrder' /\ GaveUp' BY DEF FinOrder, GaveUp
<1>6. Testing' BY <1>1 DEF Testing
<1>7. FirstEchoed' BY DEF FirstEchoed, GwTypeOK
<1> QED BY <1>2, <1>3, <1>4, <1>5, <1>6, <1>7

(* An echo task ends, and gives up if its tries are used up. *)
LEMMA EchoOverStep ==
  ASSUME GwIInv, NEW e \in Epochs, EchoOver(e)
  PROVE  GwIInv'
<1> USE GwStateAssumption DEF GwIInv, EchoOver, EchoGoto, SetState, finVars, taskVars
<1>1. Sleepers' = Sleepers BY DEF Sleepers
<1>2. GwTypeOK' BY <1>1 DEF GwTypeOK
<1>3. TriesLeft' BY DEF TriesLeft, GwTypeOK, Running
<1>4. NotYet' BY DEF NotYet, GwTypeOK
<1>5. FinOrder' BY DEF FinOrder
<1>6. Testing'
  <2>1. CASE Exceeded(e) BY <2>1, <1>1 DEF Testing
  <2>2. CASE ~ Exceeded(e)
    <3>1. gw = "ECHO_TESTING" => epoch # e BY <2>2 DEF Testing, NoEchoTask
    <3> QED BY <3>1, <2>2, <1>1 DEF Testing, NoEchoTask, AtWork, Exceeded, GwTypeOK
  <2> QED BY <2>1, <2>2
<1>7. FirstEchoed' BY DEF FirstEchoed, GwTypeOK
<1>8. GaveUp' BY DEF GaveUp, Exceeded, GwTypeOK
<1> QED BY <1>2, <1>3, <1>4, <1>5, <1>6, <1>7, <1>8

(* apicmdgw_fin. *)
LEMMA FinSteps ==
  ASSUME GwIInv, GwFinBegin \/ GwFinStep
  PROVE  GwIInv'
<1> USE GwStateAssumption DEF GwIInv, GwFinBegin, GwFinStep, GwFinAbort, GwFinState, GwFinJoin, SetState,
        taskVars, echoVars
<1>1. UNCHANGED <<place, timed, echo, tries, echoed, epoch>> OBVIOUS
<1>2. Sleepers' = Sleepers BY <1>1 DEF Sleepers
<1>3. GwTypeOK' BY <1>1, <1>2 DEF GwTypeOK
<1>4. TriesLeft' BY <1>1 DEF TriesLeft
<1>5. NotYet' BY <1>1 DEF NotYet
<1>6. FinOrder' BY <1>1 DEF FinOrder
<1>7. Testing' BY <1>1, <1>2 DEF Testing, NoEchoTask, AtWork, Exceeded
<1>8. FirstEchoed' BY <1>1 DEF FirstEchoed
<1>9. GaveUp' BY <1>1 DEF GaveUp, FinOrder
<1> QED BY <1>3, <1>4, <1>5, <1>6, <1>7, <1>8, <1>9

(* apicmdgw_init after apicmdgw_fin: whoever still sleeps has been woken.  *)
LEMMA ReinitStep ==
  ASSUME GwIInv, GwReinit
  PROVE  GwIInv'
<1> USE GwStateAssumption DEF GwIInv, GwReinit, TaskGoto
<1>0. epoch + 1 \in Epochs BY DEF GwTypeOK, Epochs
<1>1. place[RecvTask] = "end" /\ RecvTask \in Tasks BY DEF FinOrder, Tasks
<1>2. Sleepers' = Sleepers /\ Sleepers \subseteq signalled
  BY <1>1 DEF Sleepers, GwTypeOK, FinOrder, Testing
<1>3. GwTypeOK' BY <1>0, <1>1, <1>2 DEF GwTypeOK, FirstState
<1>4. TriesLeft' BY DEF TriesLeft
<1>5. NotYet' BY <1>0 DEF NotYet, GwTypeOK, Epochs
<1>6. FinOrder' BY DEF FinOrder
<1>7. Testing' BY <1>2 DEF Testing, FirstState
<1>8. FirstEchoed' BY DEF FirstEchoed, GwTypeOK, Epochs
<1>9. GaveUp' BY DEF GaveUp, FirstState
<1> QED BY <1>3, <1>4, <1>5, <1>6, <1>7, <1>8, <1>9

(* The invariant is inductive. *)
LEMMA GwNextIInv == GwIInv /\ [GwNext]_stateVars => GwIInv'
<1> SUFFICES ASSUME GwIInv, [GwNext]_stateVars PROVE GwIInv' OBVIOUS
<1>1. CASE \E s \in Senders, isTimed \in BOOLEAN : Call(s, isTimed)
  BY <1>1, CommandStep DEF Tasks
<1>2. CASE \E t \in Tasks : SendStep(t)
  BY <1>2, CommandStep, EnterInitStep DEF SendStep
<1>3. CASE \E e \in Epochs : EchoStep(e) \/ EchoAnswer(e)
  BY <1>3, EchoLoopStep, EchoCompleteStep, EchoOverStep DEF EchoStep
<1>4. CASE BadFrame \/ ErrInd \/ GwRecvEnd BY <1>4, GwRecvStep
<1>5. CASE GwFinBegin \/ GwFinStep \/ GwReinit BY <1>5, FinSteps, ReinitStep
<1>6. CASE UNCHANGED stateVars
  <2> USE DEF stateVars, finVars, taskVars, echoVars, GwIInv
  <2>1. Sleepers' = Sleepers BY <1>6 DEF Sleepers
  <2>2. GwTypeOK' BY <1>6, <2>1 DEF GwTypeOK
  <2> QED BY <1>6, <2>1, <2>2, TaskStep DEF Testing
<1> QED BY <1>1, <1>2, <1>3, <1>4, <1>5, <1>6 DEF GwNext

(* The inductive invariant behind the two theorems below. *)
THEOREM GwInvariant == GwSpec => []GwIInv
  BY GwInitIInv, GwNextIInv, PTL DEF GwSpec

(* A command that sleeps on g_stateCond (apicmdgw.c:1283-1321) has a       *)
(* wake-up to take, or an echo task of the gateway is at work that will    *)
(* broadcast, however late tasks of earlier initializations are, or the    *)
(* creation of this initialization's echo task has failed.                 *)
THEOREM NobodyIsStranded == GwSpec => []NobodyStranded
<1>1. GwIInv => NobodyStranded
  <2> SUFFICES ASSUME GwIInv PROVE NobodyStranded OBVIOUS
  <2>1. epoch \in Epochs BY DEF GwIInv, GwTypeOK
  <2> QED BY <2>1 DEF GwIInv, NobodyStranded, Testing
<1> QED BY <1>1, GwInvariant, PTL

(* The gateway gives up only when some echo task has used up its tries     *)
(* (apicmdgw.c:1058-1065); in the first initialization a command passes    *)
(* only after an answered echo (apicmdgw.c:1283-1331).                     *)
THEOREM TheEchoDecides == GwSpec => []EchoDecides
<1>1. GwIInv => EchoDecides BY DEF GwIInv, EchoDecides, GaveUp, FirstEchoed
<1> QED BY <1>1, GwInvariant, PTL
=============================================================================
