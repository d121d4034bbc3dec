----------------------------- MODULE KvpfsProofs -----------------------------
(***************************************************************************)
(* The key-value store, for any keys and values, any size of a bank and    *)
(* any number of saves and losses of power: a key has one home, get_env    *)
(* returns what was set, a save is durable, and a boot finds what was      *)
(* saved last or what was being saved.                                     *)
(*                                                                         *)
(* A bank never has a hole and its CRC is its last string, so that a bank  *)
(* found valid was written as a whole, whatever a loss of power left of    *)
(* another write (BanksLegible).  Unless an erasure is due, the mirror     *)
(* differs from the primary bank only in what a write can bring about: new *)
(* strings behind it and zeros in it (Writable).  A write that is cut off  *)
(* leaves the old contents, those of the mirror, or nothing valid, and     *)
(* then the other bank still has one of the two (Findable).                *)
(***************************************************************************)
EXTENDS Kvpfs, SequenceTheorems, FiniteSetTheorems, WellFoundedInduction, TLAPS

\* A key stands at most once.
Unique(log) ==
  \A i, j \in DOMAIN log :
    IsEntry(log[i]) /\ IsEntry(log[j]) /\ log[i][2] = log[j][2] => i = j

\* What a CRC is computed from, and the strings of the mirror and of a bank.
Bodies == {b \in Seq(Entries \cup {Zero}) : Unique(b)}
Sums == {Crc(b) : b \in Bodies}
Strings == Entries \cup {Zero} \cup Sums
Cells == Strings \cup {Free, Bad}
Banks == [1..Slots -> Cells]

\* A bank that holds a log and nothing else.
BankOf(log) == [i \in 1..Slots |-> IF i <= Len(log) THEN log[i] ELSE Free]

\* A log as write_to_flash leaves it: the CRC is the last string.
Closed(log) ==
  /\ log \in Seq(Strings) /\ log # <<>> /\ Len(log) <= Slots
  /\ SubSeq(log, 1, Len(log) - 1) \in Bodies
  /\ log[Len(log)] = Crc(SubSeq(log, 1, Len(log) - 1))

Saved(bank) == \E n \in 1..Slots : Closed(SubSeq(bank, 1, n)) /\ bank = BankOf(SubSeq(bank, 1, n))

\* A bank has no hole, and a CRC is the last of its strings.
Shaped(bank) ==
  \E n \in 0..Slots :
    \A i \in 1..Slots : (bank[i] # Free <=> i <= n) /\ (IsCrc(bank[i]) => i = n)

Typed ==
  /\ mirror \in Seq(Strings) /\ Len(mirror) <= Slots
  /\ erase \in BOOLEAN /\ adrift \in BOOLEAN /\ slipped \in BOOLEAN /\ paired \in BOOLEAN
  /\ list \in Seq(Entries) /\ lost \in 0..MaxLost
  /\ pc \in {"up", "primary", "backup", "boot", "loaded"}
  /\ env \in Contents /\ outcomes \subseteq Contents
  /\ primary \in Banks /\ backup \in Banks

\* Each key is once in the mirror, or once in the list, or nowhere.
Homes ==
  /\ Unique(mirror) /\ Unique(list)
  /\ \A k \in Keys : ~(HasKey(mirror, k) /\ HasKey(list, k))

Flows ==
  /\ pc # "up" => list = <<>>
  /\ pc \in {"boot", "loaded"} => ~erase
  /\ pc \in {"primary", "backup", "loaded"} => Closed(mirror)

\* No bank is found valid that was not written as a whole.
Legible(bank) == Valid(bank) => Saved(bank)
BanksLegible ==
  /\ pc # "boot" => Shaped(primary) /\ Shaped(backup)
  /\ Legible(primary) /\ Legible(backup)

Told == pc # "boot" /\ ~slipped => \A k \in Keys : AsSet(k, GetEnv(k), env[k])

\* The mirror can be written over the primary bank as it is.
Fits(bank, log) == \A i \in 1..Slots : And(bank[i], BankOf(log)[i]) = BankOf(log)[i]
Writable == pc \in {"up", "primary", "loaded"} /\ ~erase => Fits(primary, mirror)

Blank == primary = Erased /\ backup = Erased
Durable ==
  /\ pc \in {"up", "primary"} => \/ Blank /\ Nothing \in outcomes
                                 \/ Saved(primary) /\ MapOf(primary) \in outcomes
  /\ pc \in {"primary", "backup"} => MapOf(mirror) \in outcomes
  /\ pc = "backup" => primary = BankOf(mirror)
  /\ pc = "loaded" => \/ Blank /\ mirror = DefaultMirror
                      \/ primary = BankOf(mirror)

\* What a boot finds in these banks is one of the outcomes.
Found(p, b) ==
  IF Valid(p) THEN MapOf(p) \in outcomes
  ELSE IF Valid(b) THEN MapOf(b) \in outcomes
  ELSE Nothing \in outcomes

Findable ==
  paired =>
    /\ pc = "primary" => primary = backup
    /\ pc = "loaded" => MapOf(mirror) \in outcomes
    /\ pc = "boot" => Found(primary, backup)

IInv == Typed /\ Homes /\ Flows /\ BanksLegible /\ Told /\ Writable /\ Durable /\ Findable
-----------------------------------------------------------------------------
(* The strings: entries, deleted ones and checksums are told apart. *)
LEMMA Apart ==
  /\ \A k, v : IsEntry(Entry(k, v)) /\ ~IsCrc(Entry(k, v)) /\ Entry(k, v)[2] = k /\ Entry(k, v)[3] = v
  /\ \A b : IsCrc(Crc(b)) /\ ~IsEntry(Crc(b)) /\ Crc(b)[2] = b
  /\ \A s \in {Free, Zero, Bad} : ~IsEntry(s) /\ ~IsCrc(s)
  /\ Free # Zero /\ Free # Bad /\ Zero # Bad
  BY DEF IsEntry, Entry, IsCrc, Crc, Free, Zero, Bad

(* What each string is. *)
LEMMA CellIs ==
  ASSUME NEW s \in Cells
  PROVE  /\ IsEntry(s) <=> s \in Entries
         /\ IsCrc(s) <=> s \in Sums
         /\ s \in Strings <=> s # Free /\ s # Bad
         /\ s \in Entries <=> \E k \in Keys, v \in Values : s = Entry(k, v)
         /\ IsEntry(s) => s[2] \in Keys /\ s[3] \in Values /\ s = Entry(s[2], s[3])
<1>1. s \in Entries => IsEntry(s) /\ ~IsCrc(s) /\ s # Free /\ s # Bad /\ s # Zero
  BY Apart DEF Entries
<1>2. s \in Sums => ~IsEntry(s) /\ IsCrc(s) /\ s # Free /\ s # Bad /\ s # Zero
  BY Apart DEF Sums
<1>3. s \in Entries \/ s \in Sums \/ s = Zero \/ s = Free \/ s = Bad
  BY DEF Cells, Strings
<1>4. IsEntry(s) => s[2] \in Keys /\ s[3] \in Values /\ s = Entry(s[2], s[3])
  <2>1. ASSUME NEW k \in Keys, NEW v \in Values, s = Entry(k, v)
        PROVE  s[2] \in Keys /\ s[3] \in Values /\ s = Entry(s[2], s[3])
    BY <2>1, Apart
  <2>2. IsEntry(s) => s \in Entries BY <1>2, <1>3, Apart
  <2> QED BY <2>1, <2>2 DEF Entries
<1>5. s \in Entries <=> \E k \in Keys, v \in Values : s = Entry(k, v) BY DEF Entries
<1>6. s \in Strings <=> s # Free /\ s # Bad BY <1>1, <1>2, <1>3, Apart DEF Strings
<1> QED BY <1>1, <1>2, <1>3, <1>4, <1>5, <1>6, Apart

\* A log of n strings, or a bank.
IsLog(log) == \E n \in Nat : DOMAIN log = 1..n /\ \A i \in 1..n : log[i] \in Cells
Has(log, k, v) == \E i \in DOMAIN log : log[i] = Entry(k, v)

(* The sequences and functions that hold strings. *)
LEMMA Logs ==
  /\ \A log \in Seq(Strings) : IsLog(log)
  /\ \A log \in Seq(Entries) : IsLog(log)
  /\ \A bank \in Banks : IsLog(bank)
  /\ Entries \subseteq Strings /\ Strings \subseteq Cells
<1>1. Entries \subseteq Strings /\ Strings \subseteq Cells BY DEF Strings, Cells
<1>2. ASSUME NEW log \in Seq(Strings) PROVE IsLog(log)
  <2>1. Len(log) \in Nat /\ DOMAIN log = 1..Len(log) /\ \A i \in 1..Len(log) : log[i] \in Strings
    OBVIOUS
  <2> QED BY <2>1, <1>1 DEF IsLog
<1>3. ASSUME NEW log \in Seq(Entries) PROVE IsLog(log)
  <2>1. Len(log) \in Nat /\ DOMAIN log = 1..Len(log) /\ \A i \in 1..Len(log) : log[i] \in Entries
    OBVIOUS
  <2> QED BY <2>1, <1>1 DEF IsLog
<1>4. ASSUME NEW bank \in Banks PROVE IsLog(bank)
  BY KvpfsAssumption DEF IsLog, Banks
<1> QED BY <1>1, <1>2, <1>3, <1>4

(* find_value_mirror and search_ele find the entry of the key. *)
LEMMA LookupHas ==
  ASSUME NEW log, IsLog(log), Unique(log), NEW k \in Keys, NEW v, Has(log, k, v)
  PROVE  HasKey(log, k) /\ Lookup(log, k) = v /\ v \in Values
         /\ FirstIn(log, k) \in DOMAIN log /\ log[FirstIn(log, k)] = Entry(k, v)
<1>1. PICK i \in DOMAIN log : log[i] = Entry(k, v) BY DEF Has
<1>2. i \in Nat /\ log[i] \in Cells BY DEF IsLog
<1>3. LiveIn(log, k) = {i} BY <1>1, Apart DEF LiveIn, Unique
<1>4. FirstIn(log, k) = i BY <1>2, <1>3 DEF FirstIn
<1>5. v \in Values BY <1>1, <1>2, CellIs, Apart
<1> QED BY <1>1, <1>3, <1>4, <1>5, Apart DEF HasKey, Lookup

(* It finds nothing when there is none. *)
LEMMA LookupNot ==
  ASSUME NEW log, IsLog(log), NEW k \in Keys, \A v \in Values : ~Has(log, k, v)
  PROVE  ~HasKey(log, k) /\ Lookup(log, k) = NoValue
<1> SUFFICES ASSUME NEW i \in LiveIn(log, k) PROVE FALSE BY DEF HasKey, Lookup
<1>1. i \in DOMAIN log /\ IsEntry(log[i]) /\ log[i][2] = k BY DEF LiveIn
<1>2. log[i] \in Cells BY <1>1 DEF IsLog
<1>3. log[i][3] \in Values /\ log[i] = Entry(k, log[i][3]) BY <1>1, <1>2, CellIs
<1> QED BY <1>1, <1>3 DEF Has

(* What is found is a value or none. *)
LEMMA LookupType ==
  ASSUME NEW log, IsLog(log), Unique(log), NEW k \in Keys
  PROVE  /\ Lookup(log, k) \in Values \cup {NoValue}
         /\ HasKey(log, k) <=> \E v \in Values : Has(log, k, v)
         /\ HasKey(log, k) => Has(log, k, Lookup(log, k))
         /\ HasKey(log, k) <=> Lookup(log, k) # NoValue
<1>1. CASE \E v \in Values : Has(log, k, v) BY <1>1, LookupHas, KvpfsAssumption
<1>2. CASE \A v \in Values : ~Has(log, k, v) BY <1>2, LookupNot
<1> QED BY <1>1, <1>2

(* Logs with the same entries give the same values. *)
LEMMA SameLookup ==
  ASSUME NEW a, NEW b, IsLog(a), IsLog(b), Unique(a), Unique(b), NEW k \in Keys,
         \A v \in Values : Has(a, k, v) <=> Has(b, k, v)
  PROVE  Lookup(a, k) = Lookup(b, k) /\ (HasKey(a, k) <=> HasKey(b, k))
<1>1. CASE \E v \in Values : Has(a, k, v)
  <2>1. PICK v \in Values : Has(a, k, v) BY <1>1
  <2>2. Has(b, k, v) BY <2>1
  <2>3. HasKey(a, k) /\ Lookup(a, k) = v BY <2>1, LookupHas
  <2>4. HasKey(b, k) /\ Lookup(b, k) = v BY <2>2, LookupHas
  <2> QED BY <2>3, <2>4
<1>2. CASE \A v \in Values : ~Has(a, k, v)
  <2>1. ~HasKey(a, k) /\ Lookup(a, k) = NoValue BY <1>2, LookupNot
  <2>2. ~HasKey(b, k) /\ Lookup(b, k) = NoValue BY <1>2, LookupNot
  <2> QED BY <2>1, <2>2
<1> QED BY <1>1, <1>2

(* Logs with the same entries hold the same values of all keys. *)
LEMMA SameMap ==
  ASSUME NEW a, NEW b, IsLog(a), IsLog(b), Unique(a), Unique(b),
         \A k \in Keys, v \in Values : Has(a, k, v) <=> Has(b, k, v)
  PROVE  MapOf(a) = MapOf(b)
<1>1. \A k \in Keys : Lookup(a, k) = Lookup(b, k) BY SameLookup
<1> QED BY <1>1 DEF MapOf

(* They are all values. *)
LEMMA MapType ==
  ASSUME NEW log, IsLog(log), Unique(log)
  PROVE  MapOf(log) \in Contents
  BY LookupType DEF MapOf, Contents
-----------------------------------------------------------------------------
(* delete_value_mirror: the entry becomes zeros, all else stays. *)
LEMMA DeletedIs ==
  ASSUME NEW log \in Seq(Strings), Unique(log), NEW k \in Keys
  PROVE  /\ Deleted(log, k) \in Seq(Strings) /\ Len(Deleted(log, k)) = Len(log)
         /\ \A i \in 1..Len(log) : Deleted(log, k)[i] \in {log[i], Zero}
         /\ Unique(Deleted(log, k))
         /\ \A q \in Keys, v \in Values :
              Has(Deleted(log, k), q, v) <=> q # k /\ Has(log, q, v)
<1> DEFINE D == Deleted(log, k)
<1>0. IsLog(log) BY Logs
<1>1. D = [i \in 1..Len(log) |-> IF HasKey(log, k) /\ i = FirstIn(log, k) THEN Zero ELSE log[i]]
  BY DEF Deleted
<1>2. \A i \in 1..Len(log) : D[i] \in Strings BY <1>1 DEF Strings
<1>3. D \in Seq(Strings) /\ Len(D) = Len(log) BY <1>1, <1>2
<1>4. DOMAIN D = 1..Len(log) /\ DOMAIN log = 1..Len(log) BY <1>1
<1>5. \A i \in 1..Len(log) : D[i] \in {log[i], Zero} BY <1>1
<1>6. \A i \in 1..Len(log) : IsEntry(D[i]) => D[i] = log[i] BY <1>5, Apart
<1>7. Unique(D) BY <1>4, <1>6 DEF Unique
<1>8. ASSUME NEW q \in Keys, NEW v \in Values
      PROVE  Has(D, q, v) <=> q # k /\ Has(log, q, v)
  <2>1. ASSUME Has(D, q, v) PROVE q # k /\ Has(log, q, v)
    <3>1. PICK i \in 1..Len(log) : D[i] = Entry(q, v) BY <2>1, <1>4 DEF Has
    <3>2. log[i] = Entry(q, v) BY <3>1, <1>6, Apart
    <3>3. Has(log, q, v) BY <3>2, <1>4 DEF Has
    <3>4. ASSUME q = k PROVE FALSE
      <4>1. HasKey(log, k) /\ FirstIn(log, k) \in DOMAIN log /\ log[FirstIn(log, k)] = Entry(k, v)
        BY <3>3, <3>4, <1>0, LookupHas
      <4>2. FirstIn(log, k) = i BY <4>1, <3>2, <3>4, <1>4, Apart DEF Unique
      <4>3. D[i] = Zero BY <4>1, <4>2, <1>1
      <4> QED BY <4>3, <3>1, Apart
    <3> QED BY <3>3, <3>4
  <2>2. ASSUME q # k, Has(log, q, v) PROVE Has(D, q, v)
    <3>1. PICK i \in 1..Len(log) : log[i] = Entry(q, v) BY <2>2, <1>4 DEF Has
    <3>2. D[i] = log[i]
      <4>1. ASSUME HasKey(log, k), i = FirstIn(log, k) PROVE FALSE
        <5>1. Has(log, k, Lookup(log, k)) BY <4>1, <1>0, LookupType
        <5>2. log[i] = Entry(k, Lookup(log, k)) BY <5>1, <4>1, <1>0, LookupHas
        <5>3. Entry(k, Lookup(log, k))[2] = k /\ Entry(q, v)[2] = q BY Apart
        <5> QED BY <5>2, <5>3, <3>1, <2>2
      <4> QED BY <4>1, <1>1
    <3> QED BY <3>1, <3>2, <1>4 DEF Has
  <2> QED BY <2>1, <2>2
<1> QED BY <1>3, <1>5, <1>7, <1>8

\* The list d is the list l with this value of the key, and no other.
Put(d, l, k, v) ==
  /\ d \in Seq(Entries) /\ Unique(d)
  /\ \A q \in Keys, u \in Values : Has(d, q, u) <=> (q = k /\ u = v) \/ (q # k /\ Has(l, q, u))

(* add_data_list modifies the node of the key. *)
LEMMA ModifiedIs ==
  ASSUME NEW k \in Keys, NEW v \in Values, NEW l \in Seq(Entries), Unique(l), HasKey(l, k),
         NEW D, D = [l EXCEPT ![FirstIn(l, k)] = Entry(k, v)]
  PROVE  Put(D, l, k, v)
<1>0. IsLog(l) BY Logs
<1>1. PICK p \in 1..Len(l) : p = FirstIn(l, k) /\ \E w \in Values : l[p] = Entry(k, w)
  <2>1. Has(l, k, Lookup(l, k)) BY <1>0, LookupType
  <2> QED BY <2>1, <1>0, LookupHas
<1>2. Entry(k, v) \in Entries BY DEF Entries
<1>3. D \in Seq(Entries) /\ Len(D) = Len(l)
  BY <1>1, <1>2
<1>4. \A i \in 1..Len(l) : D[i] = IF i = p THEN Entry(k, v) ELSE l[i]
  BY <1>1
<1>5. DOMAIN D = 1..Len(l) /\ DOMAIN l = 1..Len(l) BY <1>3
<1>6. \A i \in 1..Len(l) : IsEntry(l[i]) /\ IsEntry(D[i]) /\ D[i][2] = l[i][2]
  <2>1. l[p][2] = k /\ Entry(k, v)[2] = k BY <1>1, Apart
  <2>2. \A i \in 1..Len(l) : l[i] \in Cells /\ D[i] \in Cells BY <1>3, Logs
  <2>3. \A i \in 1..Len(l) : l[i] \in Entries /\ D[i] \in Entries BY <1>3
  <2> QED BY <2>1, <2>2, <2>3, <1>4, CellIs
<1>7. Unique(D) BY <1>5, <1>6 DEF Unique
<1>8. ASSUME NEW q \in Keys, NEW u \in Values
      PROVE  Has(D, q, u) <=> (q = k /\ u = v) \/ (q # k /\ Has(l, q, u))
  <2>0. \A x, y, z, w : Entry(x, y) = Entry(z, w) => x = z /\ y = w BY Apart
  <2>1. CASE q = k
    <3>1. Has(D, k, v) BY <1>4, <1>5 DEF Has
    <3>2. ASSUME Has(D, k, u) PROVE u = v
      <4>1. PICK i \in 1..Len(l) : D[i] = Entry(k, u) BY <3>2, <1>5 DEF Has
      <4>2. i = p BY <4>1, <1>1, <1>4, <1>5, <1>6, Apart DEF Unique
      <4> QED BY <4>1, <4>2, <1>4, <2>0
    <3> QED BY <3>1, <3>2, <2>1
  <2>2. CASE q # k
    <3>1. \A i \in 1..Len(l) : D[i] = Entry(q, u) <=> l[i] = Entry(q, u)
      BY <1>1, <1>4, <2>0, <2>2
    <3> QED BY <3>1, <2>2, <1>5 DEF Has
  <2> QED BY <2>1, <2>2
<1> QED BY <1>3, <1>7, <1>8 DEF Put

(* It links a node for a new key. *)
LEMMA LinkedIs ==
  ASSUME NEW k \in Keys, NEW v \in Values, NEW l \in Seq(Entries), Unique(l), ~HasKey(l, k),
         NEW D, D = Append(l, Entry(k, v))
  PROVE  Put(D, l, k, v)
<1>0. IsLog(l) BY Logs
<1>1. Entry(k, v) \in Entries BY DEF Entries
<1>2. D \in Seq(Entries) /\ DOMAIN D = 1..Len(l) + 1 /\ DOMAIN l = 1..Len(l)
  BY <1>1
<1>3. \A i \in 1..Len(l) : D[i] = l[i] BY <1>1
<1>4. D[Len(l) + 1] = Entry(k, v) BY <1>1
<1>5. \A i \in 1..Len(l) : l[i][2] # k
  <2> SUFFICES ASSUME NEW i \in 1..Len(l), l[i][2] = k PROVE FALSE OBVIOUS
  <2>1. l[i] \in Entries /\ l[i] \in Cells BY Logs
  <2>2. l[i] = Entry(k, l[i][3]) BY <2>1, CellIs
  <2>3. Has(l, k, l[i][3]) BY <2>2, <1>2 DEF Has
  <2> QED BY <2>3, <1>0, LookupHas
<1>6. Unique(D)
  <2> SUFFICES ASSUME NEW i \in DOMAIN D, NEW j \in DOMAIN D, i # j, D[i][2] = D[j][2],
                      IsEntry(D[i]), IsEntry(D[j])
               PROVE  FALSE
    BY DEF Unique
  <2>1. Entry(k, v)[2] = k BY Apart
  <2>2. CASE i \in 1..Len(l) /\ j \in 1..Len(l) BY <2>2, <1>2, <1>3 DEF Unique
  <2>3. CASE i = Len(l) + 1 /\ j \in 1..Len(l) BY <2>1, <2>3, <1>3, <1>4, <1>5
  <2>4. CASE j = Len(l) + 1 /\ i \in 1..Len(l) BY <2>1, <2>4, <1>3, <1>4, <1>5
  <2> QED BY <2>2, <2>3, <2>4, <1>2
<1>7. ASSUME NEW q \in Keys, NEW u \in Values
      PROVE  Has(D, q, u) <=> (q = k /\ u = v) \/ (q # k /\ Has(l, q, u))
  <2>0. \A x, y, z, w : Entry(x, y) = Entry(z, w) => x = z /\ y = w BY Apart
  <2>1. Has(D, q, u) <=> Has(l, q, u) \/ Entry(k, v) = Entry(q, u)
    BY <1>2, <1>3, <1>4 DEF Has
  <2>2. ~Has(l, k, u) BY <1>2, <1>5, Apart DEF Has
  <2> QED BY <2>0, <2>1, <2>2
<1> QED BY <1>2, <1>6, <1>7 DEF Put

\* The list d is the list l without this key.
Gone(d, l, k) ==
  /\ d \in Seq(Entries) /\ Unique(d)
  /\ \A q \in Keys, u \in Values : Has(d, q, u) <=> q # k /\ Has(l, q, u)

(* delete_ele takes the node of the key out. *)
LEMMA RemovedIs ==
  ASSUME NEW k \in Keys, NEW l \in Seq(Entries), Unique(l), HasKey(l, k),
         NEW D, D = RemoveAt(l, FirstIn(l, k))
  PROVE  Gone(D, l, k)
<1>0. IsLog(l) BY Logs
<1>1. PICK p \in 1..Len(l) : p = FirstIn(l, k) /\ \E w \in Values : l[p] = Entry(k, w)
  <2>1. Has(l, k, Lookup(l, k)) BY <1>0, LookupType
  <2> QED BY <2>1, <1>0, LookupHas
<1> DEFINE A == SubSeq(l, 1, p - 1)
           Z == SubSeq(l, p + 1, Len(l))
           n == Len(l)
<1>2. n \in Nat /\ p \in 1..n /\ \A i \in 1..n : l[i] \in Entries OBVIOUS
<1>3. A \in Seq(Entries) /\ Len(A) = p - 1 /\ \A i \in 1..p - 1 : A[i] = l[i]
  <2>1. \A i \in 1..p - 1 : l[i] \in Entries BY <1>2
  <2>2. p - 1 \in Int /\ 1 \in Int BY <1>2
  <2> QED BY <2>1, <2>2, <1>2, SubSeqProperties
<1>4. Z \in Seq(Entries) /\ Len(Z) = n - p /\ \A i \in 1..n - p : Z[i] = l[p + i]
  <2>1. \A i \in p + 1..n : l[i] \in Entries BY <1>2
  <2>2. p + 1 \in Int /\ n \in Int BY <1>2
  <2>3. /\ Z \in Seq(Entries)
        /\ Len(Z) = IF p + 1 <= n THEN n - (p + 1) + 1 ELSE 0
        /\ \A i \in 1..n - (p + 1) + 1 : Z[i] = l[p + (1 + i) - 1]
    BY <2>1, <2>2, SubSeqProperties
  <2>4. Len(Z) = n - p BY <2>3, <1>2
  <2>5. \A i \in 1..n - p : i \in 1..n - (p + 1) + 1 /\ p + (1 + i) - 1 = p + i BY <1>2
  <2> QED BY <2>3, <2>4, <2>5
<1>5. D = A \o Z BY <1>1 DEF RemoveAt
<1>6. D \in Seq(Entries) /\ Len(D) = n - 1
      /\ \A i \in 1..n - 1 : D[i] = IF i < p THEN l[i] ELSE l[i + 1]
  <2> HIDE DEF A, Z
  <2>0. /\ A \o Z \in Seq(Entries) /\ Len(A \o Z) = Len(A) + Len(Z)
        /\ \A i \in 1..Len(A) + Len(Z) : (A \o Z)[i] = IF i <= Len(A) THEN A[i] ELSE Z[i - Len(A)]
    BY <1>3, <1>4, ConcatProperties
  <2>1. D \in Seq(Entries) /\ Len(D) = Len(A) + Len(Z)
        /\ \A i \in 1..Len(A) + Len(Z) : D[i] = IF i <= Len(A) THEN A[i] ELSE Z[i - Len(A)]
    BY <2>0, <1>5
  <2>2. Len(A) + Len(Z) = n - 1 BY <1>2, <1>3, <1>4
  <2>3. ASSUME NEW i \in 1..n - 1 PROVE D[i] = IF i < p THEN l[i] ELSE l[i + 1]
    <3>1. CASE i < p
      <4>1. i <= Len(A) /\ i \in 1..p - 1 BY <3>1, <1>2, <1>3
      <4> QED BY <4>1, <3>1, <2>1, <2>2, <1>3
    <3>2. CASE ~(i < p)
      <4>1. ~(i <= Len(A)) /\ i - Len(A) \in 1..n - p /\ p + (i - Len(A)) = i + 1 BY <3>2, <1>2, <1>3
      <4> QED BY <4>1, <3>2, <2>1, <2>2, <1>4
    <3> QED BY <3>1, <3>2
  <2> QED BY <2>1, <2>2, <2>3
<1> DEFINE F(i) == IF i < p THEN i ELSE i + 1
<1>7. DOMAIN D = 1..n - 1 /\ DOMAIN l = 1..n BY <1>6, <1>2
<1>8. \A i \in 1..n - 1 : F(i) \in 1..n /\ F(i) # p /\ D[i] = l[F(i)] BY <1>2, <1>6
<1>9. \A i, j \in 1..n - 1 : F(i) = F(j) => i = j BY <1>2
<1>10. \A j \in 1..n : j # p => \E i \in 1..n - 1 : F(i) = j
  <2> SUFFICES ASSUME NEW j \in 1..n, j # p PROVE \E i \in 1..n - 1 : F(i) = j OBVIOUS
  <2>1. CASE j < p
    <3>1. j \in 1..n - 1 /\ F(j) = j BY <2>1, <1>2
    <3> QED BY <3>1
  <2>2. CASE j > p
    <3>1. j - 1 \in 1..n - 1 /\ F(j - 1) = j BY <2>2, <1>2
    <3> QED BY <3>1
  <2> QED BY <2>1, <2>2, <1>2
<1> HIDE DEF F
<1>11. Unique(D) BY <1>7, <1>8, <1>9 DEF Unique
<1>12. ASSUME NEW q \in Keys, NEW u \in Values
       PROVE  Has(D, q, u) <=> q # k /\ Has(l, q, u)
  <2>0. \A x, y, z, w : Entry(x, y) = Entry(z, w) => x = z /\ y = w BY Apart
  <2>1. Has(D, q, u) <=> \E j \in 1..n : j # p /\ l[j] = Entry(q, u)
    <3>1. Has(D, q, u) <=> \E i \in 1..n - 1 : D[i] = Entry(q, u) BY <1>7 DEF Has
    <3>2. ASSUME NEW i \in 1..n - 1, D[i] = Entry(q, u)
          PROVE  \E j \in 1..n : j # p /\ l[j] = Entry(q, u)
      BY <3>2, <1>8
    <3>3. ASSUME NEW j \in 1..n, j # p, l[j] = Entry(q, u)
          PROVE  \E i \in 1..n - 1 : D[i] = Entry(q, u)
      <4>1. PICK i \in 1..n - 1 : F(i) = j BY <3>3, <1>10
      <4> QED BY <4>1, <3>3, <1>8
    <3> QED BY <3>1, <3>2, <3>3
  <2>2. \A j \in 1..n : l[j] = Entry(k, u) => j = p
    BY <1>1, <1>7, Apart DEF Unique
  <2>3. CASE q = k BY <2>1, <2>2, <2>3
  <2>4. CASE q # k
    <3>1. \A j \in 1..n : l[j] = Entry(q, u) => j # p BY <1>1, <2>0, <2>4
    <3> QED BY <3>1, <2>1, <2>4, <1>7 DEF Has
  <2> QED BY <2>3, <2>4
<1> QED BY <1>6, <1>11, <1>12 DEF Gone
-----------------------------------------------------------------------------
\* How many strings are kept up to n.
Count(log, n) == Cardinality(Kept(log, n))

(* The count grows by one with each entry that is kept. *)
LEMMA CountStep ==
  ASSUME NEW log, NEW n \in Nat
  PROVE  /\ IsFiniteSet(Kept(log, n)) /\ Count(log, n) \in 0..n
         /\ Count(log, 0) = 0
         /\ Count(log, n + 1) = IF Survives(log[n + 1]) THEN Count(log, n) + 1 ELSE Count(log, n)
<1>1. IsFiniteSet(Kept(log, n)) /\ Cardinality(Kept(log, n)) <= n
  <2>1. IsFiniteSet(1..n) /\ Cardinality(1..n) = n BY FS_Interval
  <2>2. Kept(log, n) \in SUBSET (1..n) BY DEF Kept
  <2> QED BY <2>1, <2>2, FS_Subset
<1>2. Cardinality(Kept(log, n)) \in Nat BY <1>1, FS_CardinalityType
<1>6. Count(log, n) \in 0..n BY <1>1, <1>2 DEF Count
<1>3. Count(log, 0) = 0
  <2>1. Kept(log, 0) = {} BY DEF Kept
  <2> QED BY <2>1, FS_EmptySet DEF Count
<1>4. CASE Survives(log[n + 1])
  <2>1. Kept(log, n + 1) = Kept(log, n) \cup {n + 1} BY <1>4 DEF Kept
  <2>2. n + 1 \notin Kept(log, n) BY DEF Kept
  <2>3. Cardinality(Kept(log, n) \cup {n + 1}) = Cardinality(Kept(log, n)) + 1
    BY <1>1, <2>2, FS_AddElement
  <2>4. Count(log, n + 1) = Count(log, n) + 1 BY <2>1, <2>3 DEF Count
  <2> QED BY <1>1, <1>3, <1>4, <1>6, <2>4
<1>5. CASE ~Survives(log[n + 1])
  <2>1. Kept(log, n + 1) = Kept(log, n) BY <1>5 DEF Kept
  <2>2. Count(log, n + 1) = Count(log, n) BY <2>1 DEF Count
  <2> QED BY <1>1, <1>3, <1>5, <1>6, <2>2
<1> QED BY <1>4, <1>5

(* The same, for the string before one. *)
LEMMA CountAt ==
  ASSUME NEW log, NEW n \in Nat \ {0}
  PROVE  /\ Count(log, n) \in Nat /\ Count(log, n - 1) \in Nat
         /\ Count(log, n) = IF Survives(log[n]) THEN Count(log, n - 1) + 1 ELSE Count(log, n - 1)
<1>1. n - 1 \in Nat /\ (n - 1) + 1 = n OBVIOUS
<1>2. Count(log, n - 1) \in Nat BY <1>1, CountStep
<1>3. Count(log, n) \in Nat BY CountStep
<1> QED BY <1>1, <1>2, <1>3, CountStep

(* No two entries have the same count. *)
LEMMA CountApart ==
  ASSUME NEW log, NEW n \in Nat, NEW i \in Kept(log, n), NEW j \in Kept(log, n), i < j
  PROVE  Count(log, i) < Count(log, j)
<1>1. i \in Nat /\ j \in Nat /\ j > 0 /\ Survives(log[j]) BY DEF Kept
<1>2. j - 1 \in Nat /\ j = (j - 1) + 1 BY <1>1
<1>3. Count(log, j) = Count(log, j - 1) + 1 BY <1>1, <1>2, CountStep
<1>4. Kept(log, i) \in SUBSET Kept(log, j - 1) BY <1>1 DEF Kept
<1>5. IsFiniteSet(Kept(log, j - 1)) BY <1>2, CountStep
<1>6. Count(log, i) <= Count(log, j - 1) BY <1>4, <1>5, FS_Subset DEF Count
<1>7. Count(log, i) \in Nat /\ Count(log, j - 1) \in Nat BY <1>1, <1>2, CountStep
<1> QED BY <1>3, <1>6, <1>7

(* Some entry has each count. *)
LEMMA CountMet ==
  ASSUME NEW log, NEW n \in Nat, NEW c \in 1..Count(log, n)
  PROVE  \E i \in Kept(log, n) : Count(log, i) = c
<1> DEFINE I == {i \in 0..n : Count(log, i) >= c}
<1>0. c \in Nat /\ c > 0 /\ Count(log, n) >= c BY CountStep
<1>1. n \in I /\ I \subseteq Nat BY <1>0
<1>2. PICK m \in I : \A j \in I : m <= j
  <2> DEFINE less == {ss \in Nat \X Nat : ss[1] < ss[2]}
  <2>1. \A x, y \in Nat : <<x, y>> \in less <=> x < y OBVIOUS
  <2>2. IsWellFoundedOn(less, Nat) BY NatLessThanWellFounded DEF OpToRel
  <2> HIDE DEF less, I
  <2>3. I # {} BY <1>1
  <2>4. PICK m \in I : \A j \in I : ~(<<j, m>> \in less) BY <1>1, <2>2, <2>3, WFMin
  <2>5. ASSUME NEW j \in I PROVE m <= j
    <3>1. j \in Nat /\ m \in Nat BY <1>1
    <3>2. ~(j < m) BY <2>1, <2>4, <3>1
    <3> QED BY <3>1, <3>2
  <2> QED BY <2>5
<1>3. m \in 0..n /\ Count(log, m) >= c BY <1>2
<1>4. m # 0 BY <1>0, <1>3, CountStep
<1>5. m - 1 \in 0..n /\ m - 1 \in Nat /\ (m - 1) + 1 = m BY <1>3, <1>4
<1>6. Count(log, m - 1) < c
  <2>1. m - 1 \notin I BY <1>2, <1>5
  <2>2. Count(log, m - 1) \in Nat BY <1>5, CountStep
  <2> QED BY <2>1, <2>2, <1>0, <1>5
<1>7. Count(log, m) = IF Survives(log[m]) THEN Count(log, m - 1) + 1 ELSE Count(log, m - 1)
  BY <1>5, CountStep
<1>8. Count(log, m - 1) \in Nat BY <1>5, CountStep
<1>9. Survives(log[m]) /\ Count(log, m) = c BY <1>0, <1>3, <1>6, <1>7, <1>8
<1>10. m \in Kept(log, n) BY <1>3, <1>4, <1>9 DEF Kept
<1> QED BY <1>9, <1>10

(* compact_flash keeps the entries, each once, and nothing else, but for  *)
(* the keys that begin with CRC_KEYNAME.                                   *)
LEMMA CompactedIs ==
  ASSUME NEW log \in Seq(Strings), Unique(log), NEW D, D = Compacted(log)
  PROVE  /\ D \in Seq(Entries) /\ Unique(D)
         /\ \A q \in Keys, u \in Values : Has(D, q, u) <=> q \notin CrcKeys /\ Has(log, q, u)
         /\ Len(D) + Cardinality({i \in DOMAIN log : log[i] = Zero}) <= Len(log)
<1> DEFINE L == Len(log)
           P == Kept(log, L)
           F(n) == CHOOSE i \in P : Count(log, i) = n
           m == Count(log, L)
<1>0. L \in Nat /\ DOMAIN log = 1..L /\ m \in Nat /\ \A i \in 1..L : log[i] \in Cells
  BY Logs, CountStep
<1>1. D = [n \in 1..m |-> log[F(n)]] BY DEF Compacted, Count
<1>2. \A n \in 1..m : F(n) \in P /\ Count(log, F(n)) = n BY <1>0, CountMet
<1>3. \A i \in P : /\ i \in 1..L /\ Survives(log[i]) /\ log[i] \in Entries
                    /\ IsEntry(log[i]) /\ log[i][2] \notin CrcKeys
  BY <1>0, CellIs DEF Kept, Survives
<1>4. \A i, j \in P : Count(log, i) = Count(log, j) => i = j
  <2> SUFFICES ASSUME NEW i \in P, NEW j \in P, i # j PROVE Count(log, i) # Count(log, j) OBVIOUS
  <2>1. i \in Nat /\ j \in Nat BY <1>3
  <2>2. Count(log, i) \in Nat /\ Count(log, j) \in Nat BY <1>3, CountAt
  <2>3. CASE i < j
    <3>1. Count(log, i) < Count(log, j) BY <2>3, <1>0, CountApart
    <3> QED BY <3>1, <2>2
  <2>4. CASE j < i
    <3>1. Count(log, j) < Count(log, i) BY <2>4, <1>0, CountApart
    <3> QED BY <3>1, <2>2
  <2> QED BY <2>1, <2>3, <2>4
<1>5. \A i \in P : Count(log, i) \in 1..m /\ F(Count(log, i)) = i
  <2> SUFFICES ASSUME NEW i \in P PROVE Count(log, i) \in 1..m
    BY <1>4
  <2>1. i \in Nat \ {0} /\ i <= L BY <1>3
  <2>2. Count(log, i) = Count(log, i - 1) + 1 /\ Count(log, i - 1) \in Nat BY <2>1, <1>3, CountAt
  <2>3. Kept(log, i) \in SUBSET P BY <2>1, <1>0 DEF Kept
  <2>4. Count(log, i) <= m BY <2>3, <1>0, CountStep, FS_Subset DEF Count
  <2> QED BY <2>2, <2>4
<1> HIDE DEF F, m, P
<1>6. D \in Seq(Entries) /\ Len(D) = m /\ DOMAIN D = 1..m BY <1>0, <1>1, <1>2, <1>3
<1>7. \A n \in 1..m : F(n) \in 1..L /\ D[n] = log[F(n)] BY <1>1, <1>2, <1>3
<1>8. Unique(D)
  <2> SUFFICES ASSUME NEW i \in 1..m, NEW j \in 1..m, IsEntry(D[i]), IsEntry(D[j]), D[i][2] = D[j][2]
               PROVE  i = j
    BY <1>6 DEF Unique
  <2>1. F(i) = F(j) BY <1>0, <1>7 DEF Unique
  <2> QED BY <2>1, <1>2
<1>9. ASSUME NEW q \in Keys, NEW u \in Values
      PROVE  Has(D, q, u) <=> q \notin CrcKeys /\ Has(log, q, u)
  <2>1. ASSUME Has(D, q, u) PROVE q \notin CrcKeys /\ Has(log, q, u)
    <3>1. PICK n \in 1..m : D[n] = Entry(q, u) BY <2>1, <1>6 DEF Has
    <3>2. F(n) \in 1..L /\ log[F(n)] = Entry(q, u) BY <3>1, <1>7
    <3>3. log[F(n)][2] \notin CrcKeys BY <1>2, <1>3
    <3> QED BY <3>2, <3>3, <1>0, Apart DEF Has
  <2>2. ASSUME Has(log, q, u), q \notin CrcKeys PROVE Has(D, q, u)
    <3>1. PICK i \in 1..L : log[i] = Entry(q, u) BY <2>2, <1>0 DEF Has
    <3>2. i \in P BY <3>1, <2>2, <1>0, Apart DEF Kept, Survives, P
    <3>3. Count(log, i) \in 1..m /\ F(Count(log, i)) = i BY <3>2, <1>5
    <3>4. D[Count(log, i)] = Entry(q, u) BY <3>1, <3>3, <1>7
    <3> QED BY <3>3, <3>4, <1>6 DEF Has
  <2> QED BY <2>1, <2>2
<1>10. Len(D) + Cardinality({i \in DOMAIN log : log[i] = Zero}) <= Len(log)
  <2> DEFINE Z == {i \in DOMAIN log : log[i] = Zero}
  <2>1. IsFiniteSet(1..L) /\ Cardinality(1..L) = L BY <1>0, FS_Interval
  <2>2. P \in SUBSET (1..L) /\ Z \in SUBSET (1..L) BY <1>0, <1>3
  <2>3. P \cap Z = {} BY <1>3, Apart
  <2> HIDE DEF Z
  <2>4. IsFiniteSet(P) /\ IsFiniteSet(Z) BY <2>1, <2>2, FS_Subset
  <2>5. Cardinality(P \cup Z) = Cardinality(P) + Cardinality(Z) - Cardinality(P \cap Z) BY <2>4, FS_Union
  <2>6. Cardinality(P \cap Z) = 0 BY <2>3, FS_EmptySet
  <2>7. P \cup Z \in SUBSET (1..L) BY <2>2
  <2>8. Cardinality(P \cup Z) <= L BY <2>1, <2>7, FS_Subset
  <2>9. Cardinality(P) = m BY DEF m, P, Count
  <2>10. m + Cardinality(Z) <= L
    <3>1. Cardinality(Z) \in Nat BY <2>4, FS_CardinalityType
    <3> QED BY <3>1, <2>5, <2>6, <2>8, <2>9, <1>0
  <2> QED BY <2>10, <1>6 DEF Z
<1> QED BY <1>6, <1>8, <1>9, <1>10
-----------------------------------------------------------------------------
(* Unique, by the indices.                                                 *)
LEMMA UniqueIs ==
  ASSUME NEW log, NEW n, DOMAIN log = 1..n,
         \A i, j \in 1..n : IsEntry(log[i]) /\ IsEntry(log[j]) /\ log[i][2] = log[j][2] => i = j
  PROVE  Unique(log)
  BY DEF Unique

(* Two logs one after the other, with no key in both. *)
LEMMA ConcatIs ==
  ASSUME NEW a \in Seq(Strings), NEW b \in Seq(Strings), Unique(a), Unique(b),
         \A k \in Keys : ~(HasKey(a, k) /\ HasKey(b, k)), NEW D, D = a \o b
  PROVE  /\ D \in Seq(Strings) /\ Len(D) = Len(a) + Len(b) /\ Unique(D)
         /\ \A i \in 1..Len(a) : D[i] = a[i]
         /\ \A q \in Keys, u \in Values : Has(D, q, u) <=> Has(a, q, u) \/ Has(b, q, u)
<1>0. IsLog(a) /\ IsLog(b) BY Logs
<1>1. /\ a \o b \in Seq(Strings) /\ Len(a \o b) = Len(a) + Len(b)
      /\ \A i \in 1..Len(a) + Len(b) : (a \o b)[i] = IF i <= Len(a) THEN a[i] ELSE b[i - Len(a)]
  BY ConcatProperties
<1>2. Len(a) \in Nat /\ Len(b) \in Nat OBVIOUS
<1>3. D \in Seq(Strings) /\ Len(D) = Len(a) + Len(b) BY <1>1
<1>4. \A i \in 1..Len(a) : i \in 1..Len(D) /\ D[i] = a[i] BY <1>1, <1>2, <1>3
<1>5. \A i \in 1..Len(b) : Len(a) + i \in 1..Len(D) /\ D[Len(a) + i] = b[i]
  <2> TAKE i \in 1..Len(b)
  <2>1. Len(a) + i \in 1..Len(a) + Len(b) /\ ~(Len(a) + i <= Len(a)) /\ Len(a) + i - Len(a) = i BY <1>2
  <2> QED BY <2>1, <1>1
<1>6. \A i \in 1..Len(D) : i \in 1..Len(a) \/ \E j \in 1..Len(b) : i = Len(a) + j
  <2> SUFFICES ASSUME NEW i \in 1..Len(D), i \notin 1..Len(a) PROVE \E j \in 1..Len(b) : i = Len(a) + j
    OBVIOUS
  <2>1. i - Len(a) \in 1..Len(b) /\ i = Len(a) + (i - Len(a)) BY <1>2, <1>3
  <2> QED BY <2>1
<1>7. DOMAIN D = 1..Len(D) /\ DOMAIN a = 1..Len(a) /\ DOMAIN b = 1..Len(b) BY <1>3
<1>8. ASSUME NEW q \in Keys, NEW u \in Values
      PROVE  Has(D, q, u) <=> Has(a, q, u) \/ Has(b, q, u)
  <2>1. ASSUME Has(D, q, u) PROVE Has(a, q, u) \/ Has(b, q, u)
    <3>1. PICK i \in 1..Len(D) : D[i] = Entry(q, u) BY <2>1, <1>7 DEF Has
    <3>2. CASE i \in 1..Len(a) BY <3>1, <3>2, <1>4, <1>7 DEF Has
    <3>3. CASE i \notin 1..Len(a)
      <4>1. PICK j \in 1..Len(b) : i = Len(a) + j BY <3>3, <1>6
      <4>2. b[j] = Entry(q, u) BY <4>1, <3>1, <1>5
      <4> QED BY <4>2, <1>7 DEF Has
    <3> QED BY <3>2, <3>3
  <2>2. ASSUME Has(a, q, u) PROVE Has(D, q, u)
    <3>1. PICK i \in 1..Len(a) : a[i] = Entry(q, u) BY <2>2, <1>7 DEF Has
    <3> QED BY <3>1, <1>4, <1>7 DEF Has
  <2>3. ASSUME Has(b, q, u) PROVE Has(D, q, u)
    <3>1. PICK i \in 1..Len(b) : b[i] = Entry(q, u) BY <2>3, <1>7 DEF Has
    <3> QED BY <3>1, <1>5, <1>7 DEF Has
  <2> QED BY <2>1, <2>2, <2>3
<1>9. \A i \in 1..Len(a), j \in 1..Len(b) : IsEntry(a[i]) /\ IsEntry(b[j]) => a[i][2] # b[j][2]
  <2> SUFFICES ASSUME NEW i \in 1..Len(a), NEW j \in 1..Len(b), IsEntry(a[i]), IsEntry(b[j]), a[i][2] = b[j][2]
               PROVE  FALSE
    OBVIOUS
  <2>1. a[i] \in Cells /\ b[j] \in Cells BY Logs
  <2> DEFINE k == a[i][2]
  <2>2. k \in Keys /\ a[i] = Entry(k, a[i][3]) /\ b[j] = Entry(k, b[j][3]) BY <2>1, CellIs
  <2>3. Has(a, k, a[i][3]) /\ Has(b, k, b[j][3]) BY <2>2, <1>7 DEF Has
  <2>4. HasKey(a, k) BY <2>2, <2>3, <1>0, LookupHas
  <2>5. HasKey(b, k) BY <2>2, <2>3, <1>0, LookupHas
  <2> QED BY <2>2, <2>4, <2>5
<1>10. Unique(D)
  <2> SUFFICES \A i, j \in 1..Len(D) : IsEntry(D[i]) /\ IsEntry(D[j]) /\ D[i][2] = D[j][2] => i = j
    BY <1>7, UniqueIs
  <2> SUFFICES ASSUME NEW i \in 1..Len(D), NEW j \in 1..Len(D), IsEntry(D[i]), IsEntry(D[j]), D[i][2] = D[j][2]
               PROVE  i = j
    OBVIOUS
  <2>1. CASE i \in 1..Len(a) /\ j \in 1..Len(a) BY <2>1, <1>4, <1>7 DEF Unique
  <2>2. CASE i \in 1..Len(a) /\ j \notin 1..Len(a) BY <2>2, <1>4, <1>5, <1>6, <1>9
  <2>3. CASE i \notin 1..Len(a) /\ j \in 1..Len(a) BY <2>3, <1>4, <1>5, <1>6, <1>9
  <2>4. CASE i \notin 1..Len(a) /\ j \notin 1..Len(a)
    <3>1. PICK x \in 1..Len(b) : i = Len(a) + x BY <2>4, <1>6
    <3>2. PICK y \in 1..Len(b) : j = Len(a) + y BY <2>4, <1>6
    <3>3. D[i] = b[x] /\ D[j] = b[y] BY <3>1, <3>2, <1>5
    <3>4. x = y BY <3>3, <1>7 DEF Unique
    <3> QED BY <3>1, <3>2, <3>4
  <2> QED BY <2>1, <2>2, <2>3, <2>4
<1> QED BY <1>3, <1>4, <1>8, <1>10

\* Nothing is in the log d that was not in the logs a and b, and what is
\* missing has a key that begins with CRC_KEYNAME.
Passed(d, a, b) ==
  \A q \in Keys, u \in Values :
    /\ Has(d, q, u) => Has(a, q, u) \/ Has(b, q, u)
    /\ q \notin CrcKeys /\ (Has(a, q, u) \/ Has(b, q, u)) => Has(d, q, u)

(* save_list_to_flash, after compact_flash if it must be: it fits, and all *)
(* that was in the mirror or in the list is there, but for the keys that   *)
(* begin with CRC_KEYNAME.                                                 *)
LEMMA FlushedIs ==
  ASSUME Typed, Homes, Enough \/ EnoughIfCompacted, NEW D, D = Flushed
  PROVE  /\ D \in Seq(Strings) /\ Len(D) < Slots /\ Unique(D)
         /\ Passed(D, mirror, list)
         /\ Enough => Len(D) >= Len(mirror) /\ \A i \in 1..Len(mirror) : D[i] = mirror[i]
<1> DEFINE M == IF Enough THEN mirror ELSE Compacted(mirror)
<1>0. /\ mirror \in Seq(Strings) /\ list \in Seq(Entries) /\ lost \in Nat /\ Unique(mirror) /\ Unique(list)
      /\ \A k \in Keys : ~(HasKey(mirror, k) /\ HasKey(list, k))
  BY DEF Typed, Homes
<1>1. list \in Seq(Strings) BY <1>0, Logs, SeqMonotonic
<1>2. /\ M \in Seq(Strings) /\ Unique(M)
      /\ \A q \in Keys, u \in Values : /\ Has(M, q, u) => Has(mirror, q, u)
                                       /\ q \notin CrcKeys /\ Has(mirror, q, u) => Has(M, q, u)
      /\ Len(M) + Len(list) < Slots
  <2>1. CASE Enough
    <3>1. M = mirror BY <2>1
    <3>2. Len(mirror) + Len(list) < Slots
      BY <2>1, <1>0, KvpfsAssumption DEF Enough, Wanted
    <3> QED BY <3>1, <3>2, <1>0
  <2>2. CASE ~Enough
    <3>1. M = Compacted(mirror) BY <2>2
    <3>2. /\ M \in Seq(Entries) /\ Unique(M)
          /\ \A q \in Keys, u \in Values : Has(M, q, u) <=> q \notin CrcKeys /\ Has(mirror, q, u)
          /\ Len(M) + Zeros <= Len(mirror)
      BY <3>1, <1>0, CompactedIs DEF Zeros
    <3>3. M \in Seq(Strings) BY <3>2, Logs, SeqMonotonic
    <3>4. Zeros \in Nat
      <4>1. IsFiniteSet(DOMAIN mirror)
        <5>1. DOMAIN mirror = 1..Len(mirror) /\ Len(mirror) \in Int BY <1>0
        <5> QED BY <5>1, FS_Interval
      <4>2. {i \in DOMAIN mirror : mirror[i] = Zero} \in SUBSET DOMAIN mirror OBVIOUS
      <4> QED BY <4>1, <4>2, FS_Subset, FS_CardinalityType DEF Zeros
    <3>5. (Len(mirror) + Len(list) + lost + 1) - Zeros <= Slots
      BY <2>2 DEF EnoughIfCompacted, Wanted
    <3>6. Len(M) \in Nat /\ Len(mirror) \in Nat /\ Len(list) \in Nat BY <3>3, <1>0
    <3>7. Len(M) + Len(list) < Slots BY <3>2, <3>4, <3>5, <3>6, <1>0, KvpfsAssumption
    <3> QED BY <3>2, <3>3, <3>7
  <2> QED BY <2>1, <2>2
<1>3. D = M \o list BY DEF Flushed
<1>4. \A k \in Keys : ~(HasKey(M, k) /\ HasKey(list, k))
  <2> SUFFICES ASSUME NEW k \in Keys PROVE HasKey(M, k) => HasKey(mirror, k) BY <1>0
  <2>1. IsLog(M) /\ IsLog(mirror) BY <1>0, <1>2, Logs
  <2> HIDE DEF M
  <2>2. HasKey(M, k) => \E u \in Values : Has(M, k, u) BY <2>1, <1>2, LookupType
  <2>3. (\E u \in Values : Has(mirror, k, u)) => HasKey(mirror, k) BY <2>1, <1>0, LookupType
  <2> QED BY <2>2, <2>3, <1>2
<1>5. Enough => M = mirror OBVIOUS
<1> HIDE DEF M
<1>6. /\ D \in Seq(Strings) /\ Len(D) = Len(M) + Len(list) /\ Unique(D)
      /\ \A i \in 1..Len(M) : D[i] = M[i]
      /\ \A q \in Keys, u \in Values : Has(D, q, u) <=> Has(M, q, u) \/ Has(list, q, u)
  BY <1>0, <1>1, <1>2, <1>3, <1>4, ConcatIs
<1>7. Len(list) \in Nat /\ Len(mirror) \in Nat BY <1>0
<1>8. Passed(D, mirror, list) BY <1>2, <1>6 DEF Passed
<1> QED BY <1>2, <1>5, <1>6, <1>7, <1>8

(* The body is the log without its CRC. *)
LEMMA BodyOf ==
  ASSUME NEW S, NEW b \in Seq(S), NEW e \in S
  PROVE  SubSeq(Append(b, e), 1, Len(b)) = b
<1> DEFINE D == Append(b, e)
<1>1. /\ D \in Seq(S) /\ Len(D) = Len(b) + 1 /\ Len(b) \in Nat
      /\ \A i \in 1..Len(b) : D[i] = b[i] /\ D[i] \in S
  OBVIOUS
<1> HIDE DEF D
<1>2. /\ SubSeq(D, 1, Len(b)) \in Seq(S)
      /\ Len(SubSeq(D, 1, Len(b))) = IF 1 <= Len(b) THEN Len(b) - 1 + 1 ELSE 0
      /\ \A i \in 1..Len(b) - 1 + 1 : SubSeq(D, 1, Len(b))[i] = D[(1 + i) - 1]
  BY <1>1, SubSeqProperties
<1>3. Len(SubSeq(D, 1, Len(b))) = Len(b) BY <1>1, <1>2
<1>4. \A i \in 1..Len(b) : SubSeq(D, 1, Len(b))[i] = b[i]
  <2> TAKE i \in 1..Len(b)
  <2>1. i \in 1..Len(b) - 1 + 1 /\ (1 + i) - 1 = i BY <1>1
  <2> QED BY <2>1, <1>1, <1>2
<1>5. SubSeq(D, 1, Len(b)) = b BY <1>2, <1>3, <1>4, SeqEqual
<1> QED BY <1>5 DEF D

(* What is in a body. *)
LEMMA BodyIs ==
  ASSUME NEW b \in Bodies
  PROVE  b \in Seq(Strings) /\ Unique(b) /\ \A i \in 1..Len(b) : b[i] \in Entries \cup {Zero} /\ ~IsCrc(b[i])
<1>1. b \in Seq(Entries \cup {Zero}) /\ Unique(b) BY DEF Bodies
<1>2. \A i \in 1..Len(b) : b[i] \in Entries \cup {Zero} BY <1>1
<1>3. Entries \cup {Zero} \subseteq Strings BY DEF Strings
<1>4. b \in Seq(Strings) BY <1>1, <1>3, SeqMonotonic
<1>5. \A s \in Entries \cup {Zero} : ~IsCrc(s) BY Apart DEF Entries
<1> QED BY <1>1, <1>2, <1>4, <1>5

(* A body and its CRC are a closed log. *)
LEMMA CloseBody ==
  ASSUME NEW b \in Bodies, Len(b) < Slots
  PROVE  Closed(Append(b, Crc(b))) /\ Len(Append(b, Crc(b))) = Len(b) + 1
<1> DEFINE D == Append(b, Crc(b))
<1>1. Crc(b) \in Strings BY DEF Sums, Strings
<1>2. b \in Seq(Strings) BY BodyIs
<1>3. D \in Seq(Strings) /\ Len(D) = Len(b) + 1 /\ D[Len(b) + 1] = Crc(b) /\ D # <<>> /\ Len(b) \in Nat
  BY <1>1, <1>2
<1>4. SubSeq(D, 1, Len(b)) = b BY <1>1, <1>2, BodyOf
<1> HIDE DEF D
<1>5. Len(D) - 1 = Len(b) /\ Len(D) <= Slots BY <1>3, KvpfsAssumption
<1>6. Closed(D) BY <1>3, <1>4, <1>5 DEF Closed
<1> QED BY <1>3, <1>6 DEF D

(* What is in a closed log. *)
LEMMA ClosedIs ==
  ASSUME NEW log, Closed(log)
  PROVE  /\ log \in Seq(Strings) /\ Len(log) \in 1..Slots /\ Unique(log)
         /\ \A i \in 1..Len(log) : IsCrc(log[i]) <=> i = Len(log)
         /\ log[Len(log)][2] = SubSeq(log, 1, Len(log) - 1)
<1> DEFINE n == Len(log)
           b == SubSeq(log, 1, n - 1)
<1>1. log \in Seq(Strings) /\ n \in 1..Slots /\ b \in Bodies /\ log[n] = Crc(b)
  BY KvpfsAssumption DEF Closed
<1>2. b \in Seq(Strings) /\ Unique(b) /\ \A i \in 1..Len(b) : ~IsCrc(b[i]) BY <1>1, BodyIs
<1>3. Len(b) = n - 1 /\ \A i \in 1..n - 1 : b[i] = log[i]
  <2>1. \A i \in 1..n - 1 : log[i] \in Strings BY <1>1
  <2>2. n - 1 \in Int /\ 1 \in Int BY <1>1
  <2>3. /\ Len(b) = IF 1 <= n - 1 THEN ((n - 1) - 1) + 1 ELSE 0
        /\ \A i \in 1..((n - 1) - 1) + 1 : b[i] = log[(1 + i) - 1]
    BY <2>1, <2>2, SubSeqProperties
  <2>4. \A i \in 1..n - 1 : i \in 1..((n - 1) - 1) + 1 /\ (1 + i) - 1 = i BY <1>1
  <2>5. Len(b) = n - 1
    <3> HIDE DEF n, b
    <3>1. n \in Nat /\ n >= 1 BY <1>1, KvpfsAssumption
    <3> QED BY <3>1, <2>3
  <2>6. \A i \in 1..n - 1 : b[i] = log[i] BY <2>3, <2>4
  <2> QED BY <2>5, <2>6
<1> HIDE DEF b
<1>4. IsCrc(log[n]) /\ ~IsEntry(log[n]) /\ log[n][2] = b BY <1>1, Apart
<1>5. \A i \in 1..n : i # n => i \in 1..Len(b) /\ log[i] = b[i] BY <1>1, <1>3
<1>6. \A i \in 1..n : IsCrc(log[i]) <=> i = n BY <1>2, <1>4, <1>5
<1>7. DOMAIN log = 1..n /\ DOMAIN b = 1..Len(b) BY <1>1, <1>2
<1>8. Unique(log) BY <1>2, <1>4, <1>5, <1>7 DEF Unique
<1> QED BY <1>1, <1>4, <1>6, <1>8 DEF b

(* write_to_flash closes the log. *)
LEMMA WithCrcIs ==
  ASSUME NEW log \in Seq(Strings), Unique(log), Len(log) < Slots, NEW D, D = WithCrc(log)
  PROVE  /\ Closed(D) /\ Len(D) = Len(log) + 1
         /\ \A i \in 1..Len(log) : D[i] \in {log[i], Zero}
         /\ \A q \in Keys, u \in Values : Has(D, q, u) <=> Has(log, q, u)
<1> DEFINE b == [i \in DOMAIN log |-> IF IsCrc(log[i]) THEN Zero ELSE log[i]]
<1>1. D = Append(b, Crc(b)) BY DEF WithCrc
<1>2. DOMAIN log = 1..Len(log) /\ Len(log) \in Nat /\ \A i \in 1..Len(log) : log[i] \in Strings OBVIOUS
<1>3. \A i \in 1..Len(log) : b[i] \in Entries \cup {Zero} /\ b[i] \in {log[i], Zero}
                            /\ (IsEntry(b[i]) => b[i] = log[i]) /\ (IsEntry(log[i]) => b[i] = log[i])
  <2> TAKE i \in 1..Len(log)
  <2>1. log[i] \in Strings /\ log[i] \in Cells /\ b[i] = IF IsCrc(log[i]) THEN Zero ELSE log[i]
    BY <1>2, Logs
  <2>2. IsCrc(log[i]) => log[i] \in Sums /\ ~IsEntry(log[i]) BY <2>1, CellIs, Apart DEF Sums
  <2>3. log[i] \in Sums => IsCrc(log[i]) BY <2>1, CellIs
  <2> QED BY <2>1, <2>2, <2>3, Apart DEF Strings
<1>4. b \in Seq(Entries \cup {Zero}) /\ Len(b) = Len(log) /\ DOMAIN b = 1..Len(log) BY <1>2, <1>3
<1> HIDE DEF b
<1>5. Unique(b) BY <1>2, <1>3, <1>4 DEF Unique
<1>6. b \in Bodies BY <1>4, <1>5 DEF Bodies
<1>7. Closed(D) /\ Len(D) = Len(log) + 1 BY <1>1, <1>4, <1>6, CloseBody
<1>8. \A i \in 1..Len(log) : D[i] = b[i] BY <1>1, <1>4
<1>9. D[Len(log) + 1] = Crc(b) BY <1>1, <1>4, <1>2
<1>10. DOMAIN D = 1..Len(log) + 1 BY <1>7 DEF Closed
<1>11. ASSUME NEW q \in Keys, NEW u \in Values PROVE Has(D, q, u) <=> Has(log, q, u)
  <2>1. Crc(b) # Entry(q, u) BY Apart
  <2>2. \A i \in 1..Len(log) : D[i] = Entry(q, u) <=> log[i] = Entry(q, u) BY <1>3, <1>8, Apart
  <2>3. \A i \in 1..Len(log) + 1 : i = Len(log) + 1 \/ i \in 1..Len(log) BY <1>2
  <2>4. \A i \in 1..Len(log) : i \in 1..Len(log) + 1 BY <1>2
  <2> QED BY <2>1, <2>2, <2>3, <2>4, <1>2, <1>9, <1>10 DEF Has
<1> QED BY <1>3, <1>7, <1>8, <1>11
-----------------------------------------------------------------------------
(* A bank holds the log, and is erased behind it. *)
LEMMA BankOfIs ==
  ASSUME NEW log \in Seq(Strings), Len(log) <= Slots, NEW B, B = BankOf(log)
  PROVE  /\ B \in Banks
         /\ \A i \in 1..Len(log) : i \in 1..Slots /\ B[i] = log[i]
         /\ \A i \in 1..Slots : B[i] # Free <=> i <= Len(log)
         /\ \A q, u : Has(B, q, u) <=> Has(log, q, u)
         /\ Unique(log) => Unique(B)
         /\ SubSeq(B, 1, Len(log)) = log
         /\ Load(B) = log
<1> DEFINE n == Len(log)
<1>0. n \in Nat /\ n <= Slots /\ Slots \in Nat /\ DOMAIN log = 1..n /\ log \in [1..n -> Strings]
  BY KvpfsAssumption
<1>1. B = [i \in 1..Slots |-> IF i <= n THEN log[i] ELSE Free] BY DEF BankOf
<1>2. \A i \in 1..n : log[i] \in Strings /\ log[i] \in Cells /\ log[i] # Free
  <2> TAKE i \in 1..n
  <2>1. log[i] \in Strings /\ log[i] \in Cells BY <1>0, Logs
  <2> QED BY <2>1, CellIs
<1>3. B \in Banks BY <1>0, <1>1, <1>2 DEF Banks, Cells
<1>4. DOMAIN B = 1..Slots BY <1>1
<1>5. \A i \in 1..n : i \in 1..Slots /\ B[i] = log[i] BY <1>0, <1>1
<1>6. \A i \in 1..Slots : (i <= n => i \in 1..n) /\ (~(i <= n) => B[i] = Free) BY <1>0, <1>1
<1>7. \A i \in 1..Slots : B[i] # Free <=> i <= n BY <1>2, <1>5, <1>6
<1>8. ASSUME NEW q, NEW u PROVE Has(B, q, u) <=> Has(log, q, u)
  <2>1. ASSUME Has(B, q, u) PROVE Has(log, q, u)
    <3>1. PICK i \in 1..Slots : B[i] = Entry(q, u) BY <2>1, <1>4 DEF Has
    <3>2. B[i] # Free BY <3>1, Apart
    <3>3. i \in 1..n /\ log[i] = Entry(q, u) BY <3>1, <3>2, <1>5, <1>6
    <3> QED BY <3>3, <1>0 DEF Has
  <2>2. ASSUME Has(log, q, u) PROVE Has(B, q, u)
    <3>1. PICK i \in 1..n : log[i] = Entry(q, u) BY <2>2, <1>0 DEF Has
    <3> QED BY <3>1, <1>4, <1>5 DEF Has
  <2> QED BY <2>1, <2>2
<1>9. ASSUME Unique(log) PROVE Unique(B)
  <2> SUFFICES ASSUME NEW i \in 1..Slots, NEW j \in 1..Slots,
                      IsEntry(B[i]), IsEntry(B[j]), B[i][2] = B[j][2]
               PROVE  i = j
    BY <1>4 DEF Unique
  <2>1. B[i] # Free /\ B[j] # Free BY Apart
  <2>2. i \in 1..n /\ j \in 1..n /\ B[i] = log[i] /\ B[j] = log[j] BY <2>1, <1>5, <1>6
  <2> QED BY <2>2, <1>0, <1>9 DEF Unique
<1>10. SubSeq(B, 1, n) = log
  <2>1. \A i \in 1..n : B[i] \in Strings BY <1>2, <1>5
  <2>2. /\ SubSeq(B, 1, n) \in Seq(Strings)
        /\ Len(SubSeq(B, 1, n)) = IF 1 <= n THEN (n - 1) + 1 ELSE 0
        /\ \A i \in 1..(n - 1) + 1 : SubSeq(B, 1, n)[i] = B[(1 + i) - 1]
    BY <1>0, <2>1, SubSeqProperties
  <2>3. \A i \in 1..n : i \in 1..(n - 1) + 1 /\ (1 + i) - 1 = i BY <1>0
  <2>4. Len(SubSeq(B, 1, n)) = n
    <3> HIDE DEF n
    <3> QED BY <1>0, <2>2
  <2>5. \A i \in 1..n : SubSeq(B, 1, n)[i] = log[i] BY <2>2, <2>3, <1>5
  <2> HIDE DEF n
  <2>6. Len(SubSeq(B, 1, n)) = Len(log) BY <2>4 DEF n
  <2>7. \A i \in 1..Len(log) : SubSeq(B, 1, n)[i] = log[i] BY <2>5 DEF n
  <2>8. \A i \in 1..Len(SubSeq(B, 1, n)) : SubSeq(B, 1, n)[i] = log[i] BY <2>6, <2>7
  <2> QED BY <2>2, <2>6, <2>8, SeqEqual
<1>11. Load(B) = log
  <2>1. {i \in 1..Slots : \A j \in 1..i : B[j] # Free} = 1..n
    <3>1. ASSUME NEW i \in 1..Slots, \A j \in 1..i : B[j] # Free PROVE i \in 1..n
      <4>1. i \in 1..i OBVIOUS
      <4> QED BY <4>1, <3>1, <1>6
    <3>2. ASSUME NEW i \in 1..n PROVE i \in 1..Slots /\ \A j \in 1..i : B[j] # Free
      <4>1. \A j \in 1..i : j \in 1..Slots /\ j <= n BY <1>0
      <4> QED BY <4>1, <1>5, <1>7
    <3> QED BY <3>1, <3>2
  <2>2. Cardinality(1..n) = n
    <3> HIDE DEF n
    <3>1. Cardinality(1..n) = IF 1 > n THEN 0 ELSE n - 1 + 1 BY <1>0, FS_Interval
    <3> QED BY <1>0, <3>1
  <2> QED BY <2>1, <2>2, <1>10 DEF Load
<1> QED BY <1>3, <1>5, <1>7, <1>8, <1>9, <1>10, <1>11

(* A bank with a closed log: it is whole, valid, and tells what the log    *)
(* does.                                                                   *)
LEMMA ClosedBank ==
  ASSUME NEW log, Closed(log), NEW B, B = BankOf(log)
  PROVE  /\ B \in Banks /\ Saved(B) /\ Shaped(B) /\ Valid(B)
         /\ MapOf(B) = MapOf(log) /\ Load(B) = log
<1> DEFINE n == Len(log)
<1>0. /\ log \in Seq(Strings) /\ n \in 1..Slots /\ Unique(log)
      /\ \A i \in 1..n : IsCrc(log[i]) <=> i = n
      /\ log[n][2] = SubSeq(log, 1, n - 1)
  BY ClosedIs
<1>1. /\ B \in Banks
      /\ \A i \in 1..n : i \in 1..Slots /\ B[i] = log[i]
      /\ \A i \in 1..Slots : B[i] # Free <=> i <= n
      /\ \A q, u : Has(B, q, u) <=> Has(log, q, u)
      /\ Unique(B)
      /\ SubSeq(B, 1, n) = log
      /\ Load(B) = log
  BY <1>0, BankOfIs, KvpfsAssumption
<1>2. Saved(B) BY <1>0, <1>1 DEF Saved
<1>n. n \in Nat /\ n >= 1 /\ n <= Slots /\ Slots \in Nat BY <1>0, KvpfsAssumption
<1> HIDE DEF n
<1>3. \A i \in 1..Slots : IsCrc(B[i]) <=> i = n
  <2> TAKE i \in 1..Slots
  <2>1. CASE i <= n
    <3>1. i \in 1..n BY <2>1, <1>n
    <3> QED BY <3>1, <1>0, <1>1
  <2>2. CASE ~(i <= n)
    <3>1. B[i] = Free /\ i # n BY <2>2, <1>1, <1>n
    <3> QED BY <3>1, Apart
  <2> QED BY <2>1, <2>2
<1>4. Shaped(B)
  <2>1. n \in 0..Slots BY <1>n
  <2> QED BY <2>1, <1>1, <1>3 DEF Shaped
<1>5. MapOf(B) = MapOf(log) BY <1>0, <1>1, Logs, SameMap
<1>6. Crcs(B) = {n}
  <2>1. \A j \in 1..n : B[j] # Free
    <3>1. \A j \in 1..n : j \in 1..Slots /\ j <= n BY <1>n
    <3> QED BY <3>1, <1>1
  <2> QED BY <2>1, <1>0, <1>3 DEF Crcs
<1>7. B[n][2] = SubSeq(B, 1, n - 1)
  <2>1. n \in 1..n /\ B[n] = log[n] BY <1>1, <1>n
  <2>2. SubSeq(B, 1, n - 1) = SubSeq(log, 1, n - 1)
    <3> DEFINE X == SubSeq(B, 1, n - 1)
               Y == SubSeq(log, 1, n - 1)
    <3>1. \A i \in 1..n - 1 : B[i] \in Strings /\ log[i] \in Strings /\ B[i] = log[i]
      <4>1. \A i \in 1..n - 1 : i \in 1..n BY <1>n
      <4>2. \A i \in 1..n : log[i] \in Strings BY <1>0 DEF n
      <4> QED BY <4>1, <4>2, <1>1
    <3>2. n - 1 \in Int /\ 1 \in Int BY <1>n
    <3>3. /\ X \in Seq(Strings) /\ Len(X) = IF 1 <= n - 1 THEN ((n - 1) - 1) + 1 ELSE 0
          /\ \A i \in 1..((n - 1) - 1) + 1 : X[i] = B[(1 + i) - 1]
      BY <3>1, <3>2, SubSeqProperties
    <3>4. /\ Y \in Seq(Strings) /\ Len(Y) = IF 1 <= n - 1 THEN ((n - 1) - 1) + 1 ELSE 0
          /\ \A i \in 1..((n - 1) - 1) + 1 : Y[i] = log[(1 + i) - 1]
      BY <3>1, <3>2, SubSeqProperties
    <3> HIDE DEF X, Y
    <3>5. n \in Nat /\ n >= 1 BY <1>n
    <3>6. Len(X) = n - 1 BY <3>3, <3>5
    <3>6y. Len(Y) = n - 1 BY <3>4, <3>5
    <3>7. \A i \in 1..n - 1 : i \in 1..((n - 1) - 1) + 1 /\ (1 + i) - 1 = i BY <3>5
    <3>8. \A i \in 1..n - 1 : X[i] = Y[i] BY <3>1, <3>3, <3>4, <3>7
    <3>9. X = Y BY <3>3, <3>4, <3>6, <3>6y, <3>8, SeqEqual
    <3> QED BY <3>9 DEF X, Y
  <2> QED BY <2>1, <2>2, <1>0
<1>8. Valid(B)
  <2>1. n <= n BY <1>n
  <2> QED BY <1>6, <1>7, <2>1 DEF Valid
<1> QED BY <1>1, <1>2, <1>4, <1>5, <1>8

(* A saved bank is one that a closed log was written to. *)
LEMMA SavedIs ==
  ASSUME NEW bank, Saved(bank)
  PROVE  \E log : Closed(log) /\ bank = BankOf(log)
  BY DEF Saved

(* Nothing valid begins with erased flash or with half a string. *)
LEMMA NotValid ==
  ASSUME NEW bank \in Banks, bank[1] \in {Free, Bad}
  PROVE  ~Valid(bank)
<1> SUFFICES ASSUME NEW p \in Crcs(bank), bank[p][2] = SubSeq(bank, 1, p - 1) PROVE FALSE
  BY DEF Valid
<1>1. p \in 1..Slots /\ IsCrc(bank[p]) /\ \A j \in 1..p : bank[j] # Free BY DEF Crcs
<1>2. p # 1 BY <1>1, Apart
<1>3. 1 \in 1..p BY <1>1
<1>4. bank[1] = Bad BY <1>1, <1>3
<1>5. bank \in [1..Slots -> Cells] BY DEF Banks
<1>6. bank[p] \in Cells BY <1>1, <1>5
<1>7. PICK b \in Bodies : bank[p] = Crc(b) BY <1>1, <1>6, CellIs DEF Sums
<1>8. b = SubSeq(bank, 1, p - 1) BY <1>7, Apart
<1>9. /\ Len(b) = IF 1 <= p - 1 THEN p - 1 - 1 + 1 ELSE 0
      /\ \A i \in 1..p - 1 - 1 + 1 : b[i] = bank[1 + i - 1]
  <2>1. \A i \in 1..p - 1 : bank[i] \in Cells BY <1>1, <1>5, KvpfsAssumption
  <2>2. p - 1 \in Int /\ 1 \in Int BY <1>1
  <2> QED BY <1>8, <2>1, <2>2, SubSeqProperties
<1>10. 1 \in 1..Len(b) /\ b[1] = bank[1]
  <2>1. 1 <= p - 1 BY <1>1, <1>2, KvpfsAssumption
  <2>2. Len(b) = p - 1 BY <2>1, <1>1, <1>9, KvpfsAssumption
  <2>3. 1 \in 1..Len(b) BY <2>1, <2>2, <1>1
  <2>4. 1 \in 1..p - 1 - 1 + 1 /\ 1 + 1 - 1 = 1 BY <2>1, <1>1
  <2> QED BY <2>3, <2>4, <1>9
<1>11. Bad \in Entries \cup {Zero} BY <1>4, <1>10, BodyIs
<1>12. \A e \in Entries : IsEntry(e) BY Apart DEF Entries
<1> QED BY <1>11, <1>12, Apart

(* A bank without holes that is valid was written as a whole. *)
LEMMA ValidSaved ==
  ASSUME NEW bank \in Banks, Shaped(bank), Valid(bank)
  PROVE  Saved(bank)
<1>1. PICK p \in Crcs(bank) : bank[p][2] = SubSeq(bank, 1, p - 1) BY DEF Valid
<1>2. p \in 1..Slots /\ IsCrc(bank[p]) /\ p \in Nat /\ p >= 1 /\ p <= Slots /\ Slots \in Nat
  BY KvpfsAssumption DEF Crcs
<1>3. /\ \A i \in 1..Slots : bank[i] # Free <=> i <= p
      /\ \A i \in 1..Slots : IsCrc(bank[i]) => i = p
  <2>1. PICK n \in 0..Slots :
          \A i \in 1..Slots : (bank[i] # Free <=> i <= n) /\ (IsCrc(bank[i]) => i = n)
    BY DEF Shaped
  <2>2. p = n BY <2>1, <1>2
  <2> QED BY <2>1, <2>2
<1>4. bank \in [1..Slots -> Cells] BY DEF Banks
<1>5. PICK b \in Bodies : bank[p] = Crc(b)
  <2>1. bank[p] \in Cells BY <1>2, <1>4
  <2> QED BY <2>1, <1>2, CellIs DEF Sums
<1>6. b = SubSeq(bank, 1, p - 1) BY <1>1, <1>5, Apart
<1>7. Len(b) = p - 1 /\ \A i \in 1..p - 1 : b[i] = bank[i]
  <2>1. \A i \in 1..p - 1 : bank[i] \in Cells BY <1>2, <1>4
  <2>2. p - 1 \in Int /\ 1 \in Int BY <1>2
  <2>3. /\ Len(b) = IF 1 <= p - 1 THEN p - 1 - 1 + 1 ELSE 0
        /\ \A i \in 1..p - 1 - 1 + 1 : b[i] = bank[1 + i - 1]
    BY <1>6, <2>1, <2>2, SubSeqProperties
  <2>4. \A i \in 1..p - 1 : i \in 1..p - 1 - 1 + 1 /\ 1 + i - 1 = i BY <1>2
  <2>5. Len(b) = p - 1 BY <2>3, <1>2
  <2> QED BY <2>3, <2>4, <2>5
<1> DEFINE log == Append(b, Crc(b))
<1>8. b \in Seq(Strings) /\ Crc(b) \in Strings BY BodyIs DEF Sums, Strings
<1>9. Len(log) = p /\ \A i \in 1..p : log[i] = bank[i]
  <2>1. Len(log) = Len(b) + 1 /\ log[Len(b) + 1] = Crc(b) /\ \A i \in 1..Len(b) : log[i] = b[i]
    BY <1>8
  <2>2. Len(b) + 1 = p BY <1>2, <1>7
  <2>3. \A i \in 1..p : i = p \/ i \in 1..p - 1 BY <1>2
  <2> HIDE DEF log
  <2> QED BY <2>1, <2>2, <2>3, <1>5, <1>7
<1>10. Closed(log)
  <2>1. Len(b) < Slots BY <1>2, <1>7
  <2> QED BY <2>1, CloseBody
<1> HIDE DEF log
<1>11. bank = BankOf(log)
  <2>1. BankOf(log) = [i \in 1..Slots |-> IF i <= p THEN log[i] ELSE Free] BY <1>9 DEF BankOf
  <2>2. \A i \in 1..Slots : bank[i] = IF i <= p THEN log[i] ELSE Free
    <3> TAKE i \in 1..Slots
    <3>1. i <= p => i \in 1..p BY <1>2
    <3> QED BY <3>1, <1>3, <1>9
  <2> QED BY <2>1, <2>2, <1>4
<1> QED BY <1>10, <1>11, ClosedBank

(* A saved bank is valid; the mirror is loaded from it.                    *)
LEMMA SavedBank ==
  ASSUME NEW bank, Saved(bank)
  PROVE  /\ bank \in Banks /\ Shaped(bank) /\ Valid(bank)
         /\ Closed(Load(bank)) /\ bank = BankOf(Load(bank)) /\ MapOf(Load(bank)) = MapOf(bank)
<1>1. PICK log : Closed(log) /\ bank = BankOf(log) BY SavedIs
<1> QED BY <1>1, ClosedBank

(* The erased bank is not valid.                                           *)
LEMMA ErasedBank ==
  Erased \in Banks /\ Shaped(Erased) /\ ~Valid(Erased) /\ \A i \in 1..Slots : Erased[i] = Free
<1>1. Erased \in Banks /\ \A i \in 1..Slots : Erased[i] = Free BY DEF Erased, Banks, Cells
<1>2. Shaped(Erased)
  <2>1. 0 \in 0..Slots /\ \A i \in 1..Slots : ~(i <= 0) BY KvpfsAssumption
  <2> QED BY <1>1, <2>1, Apart DEF Shaped
<1>3. 1 \in 1..Slots BY KvpfsAssumption
<1> QED BY <1>1, <1>2, <1>3, NotValid

(* A bank of which a half was erased is not valid. *)
LEMMA HalfErasedIs ==
  ASSUME NEW bank \in Banks, NEW h \in HalfErased(bank)
  PROVE  h \in Banks /\ ~Valid(h)
<1>0. \A i \in 1..Slots : bank[i] \in Cells BY DEF Banks
<1>1. Free \in Cells /\ Bad \in Cells BY DEF Cells
<1>2. 1 \in 1..Slots /\ 1 * 2 <= Slots BY KvpfsAssumption
<1>3. CASE \E s \in {Free, Bad} : h = [i \in 1..Slots |-> IF i * 2 <= Slots THEN s ELSE bank[i]]
  <2>1. PICK s \in {Free, Bad} : h = [i \in 1..Slots |-> IF i * 2 <= Slots THEN s ELSE bank[i]]
    BY <1>3
  <2>2. h \in Banks BY <2>1, <1>0, <1>1 DEF Banks
  <2>3. h[1] = s BY <2>1, <1>2
  <2> QED BY <2>2, <2>3, NotValid
<1>4. CASE \E s \in {Free, Bad} : h = [i \in 1..Slots |-> IF i * 2 <= Slots THEN Free ELSE s]
  <2>1. PICK s \in {Free, Bad} : h = [i \in 1..Slots |-> IF i * 2 <= Slots THEN Free ELSE s]
    BY <1>4
  <2>2. h \in Banks BY <2>1, <1>1 DEF Banks
  <2>3. h[1] = Free BY <2>1, <1>2
  <2> QED BY <2>2, <2>3, NotValid
<1> QED BY <1>3, <1>4 DEF HalfErased
-----------------------------------------------------------------------------
(* One string written over another: neither, but over erased flash, over   *)
(* the same or with zeros.                                                 *)
LEMMA AndIs ==
  ASSUME NEW old, NEW new
  PROVE  /\ old \in Cells /\ new \in Cells => And(old, new) \in Cells
         /\ And(old, new) = Free <=> old = Free /\ new = Free
         /\ IsCrc(And(old, new)) => \/ IsCrc(old) /\ (new = Free \/ IsCrc(new))
                                    \/ IsCrc(new) /\ (old = Free \/ IsCrc(old))
         /\ And(old, old) = old /\ And(Free, new) = new /\ And(old, Free) = old
         /\ And(old, Zero) = Zero
<1>1. Zero \in Cells /\ Bad \in Cells BY DEF Cells, Strings
<1>2. CASE old = Free BY <1>2, Apart DEF And
<1>3. CASE old # Free /\ new = Free BY <1>3, Apart DEF And
<1>4. CASE old # Free /\ new # Free /\ old = new BY <1>4, Apart DEF And
<1>5. CASE old # Free /\ new # Free /\ old # new /\ Zero \in {old, new}
  BY <1>1, <1>5, Apart DEF And
<1>6. CASE old # Free /\ new # Free /\ old # new /\ Zero \notin {old, new}
  <2>1. And(old, new) = Bad BY <1>6 DEF And
  <2>2. And(old, old) = old /\ And(Free, new) = new /\ And(old, Free) = old
    <3>1. And(old, old) = old BY <1>6 DEF And
    <3>2. And(Free, new) = new BY <1>6, Apart DEF And
    <3>3. And(old, Free) = old BY <1>6, Apart DEF And
    <3> QED BY <3>1, <3>2, <3>3
  <2>3. And(old, Zero) = Zero BY <1>6, Apart DEF And
  <2> QED BY <1>1, <1>6, <2>1, <2>2, <2>3, Apart
<1> QED BY <1>2, <1>3, <1>4, <1>5, <1>6

\* b with the first strings of m written over it, the k-th one torn or not begun.
Mixed(b, m, k, t) ==
  [i \in 1..Slots |->
     CASE i < k -> And(b[i], m[i])
       [] i = k /\ t /\ And(b[i], m[i]) # b[i] -> Bad
       [] OTHER -> b[i]]

(* A write that was cut off, of the k-th string or before it, leaves no    *)
(* hole.                                                                   *)
LEMMA MixShaped ==
  ASSUME NEW b \in Banks, NEW m \in Banks, Shaped(b), Shaped(m), NEW k \in 1..Slots + 1, NEW t \in BOOLEAN
  PROVE  Mixed(b, m, k, t) \in Banks /\ Shaped(Mixed(b, m, k, t))
<1> SUFFICES ASSUME NEW h, h = [i \in 1..Slots |->
                                  CASE i < k -> And(b[i], m[i])
                                    [] i = k /\ t /\ And(b[i], m[i]) # b[i] -> Bad
                                    [] OTHER -> b[i]]
             PROVE  h \in Banks /\ Shaped(h)
  BY DEF Mixed
<1> DEFINE w(i) == And(b[i], m[i])
           cut == k <= Slots /\ t /\ w(k) # b[k]
<1>0. Slots \in Nat /\ k \in Nat /\ k >= 1 /\ k <= Slots + 1 BY KvpfsAssumption
<1>1. PICK x \in 0..Slots : \A i \in 1..Slots : (b[i] # Free <=> i <= x) /\ (IsCrc(b[i]) => i = x)
  BY DEF Shaped
<1>2. PICK y \in 0..Slots : \A i \in 1..Slots : (m[i] # Free <=> i <= y) /\ (IsCrc(m[i]) => i = y)
  BY DEF Shaped
<1>3. \A i \in 1..Slots : b[i] \in Cells /\ m[i] \in Cells /\ w(i) \in Cells BY AndIs DEF Banks
<1>4. \A i \in 1..Slots : w(i) # Free <=> i <= x \/ i <= y BY <1>1, <1>2, AndIs
<1>5. \A i \in 1..Slots : IsCrc(w(i)) => /\ i = x \/ i = y
                                         /\ i <= x => i = x
                                         /\ i <= y => i = y
  <2> TAKE i \in 1..Slots
  <2>1. (i <= x <=> b[i] # Free) /\ (i <= y <=> m[i] # Free) /\ (IsCrc(b[i]) => i = x) /\ (IsCrc(m[i]) => i = y)
    BY <1>1, <1>2
  <2>2. IsCrc(w(i)) => \/ IsCrc(b[i]) /\ (m[i] = Free \/ IsCrc(m[i]))
                       \/ IsCrc(m[i]) /\ (b[i] = Free \/ IsCrc(b[i]))
    BY AndIs
  <2> QED BY <2>1, <2>2
<1>6. \A i \in 1..Slots : b[i] = Free => w(i) = m[i] BY AndIs
<1> HIDE DEF w
<1>7. \A i \in 1..Slots : /\ i < k => h[i] = w(i)
                          /\ i = k => h[i] = IF cut THEN Bad ELSE b[i]
                          /\ i > k => h[i] = b[i]
  <2> TAKE i \in 1..Slots
  <2>1. CASE i < k
    <3>1. h[i] = And(b[i], m[i]) BY <2>1
    <3> QED BY <2>1, <3>1, <1>0 DEF w
  <2>2. CASE i = k
    <3>1. i <= Slots /\ ~(i < k) BY <2>2, <1>0
    <3> QED BY <2>2, <3>1 DEF w
  <2>3. CASE i > k
    <3>1. ~(i < k) /\ i # k BY <2>3, <1>0
    <3> QED BY <2>3, <3>1
  <2>4. i \in Nat BY <1>0
  <2> QED BY <2>1, <2>2, <2>3, <2>4, <1>0
<1>8. h \in Banks
  <2>1. Bad \in Cells BY DEF Cells
  <2>2. \A i \in 1..Slots : h[i] \in Cells
    <3> HIDE DEF cut
    <3>1. \A i \in 1..Slots : i < k \/ i = k \/ i > k BY <1>0
    <3> QED BY <2>1, <3>1, <1>3, <1>7
  <2>3. h = [i \in 1..Slots |-> h[i]] OBVIOUS
  <2> QED BY <2>2, <2>3 DEF Banks
<1>9. cut => k \in 1..Slots /\ (k <= x \/ k <= y)
  <2>1. ASSUME cut PROVE k \in 1..Slots /\ w(k) # b[k] BY <2>1, <1>0
  <2>2. ASSUME cut, ~(k <= x), ~(k <= y) PROVE FALSE BY <2>1, <2>2, <1>1, <1>2, <1>4
  <2> QED BY <2>1, <2>2
<1> HIDE DEF cut
<1> DEFINE z == IF cut THEN k ELSE k - 1
           n == IF z <= y THEN IF z <= x THEN x ELSE z
                ELSE IF y <= x THEN x ELSE y
<1>10. n \in 0..Slots BY <1>0, <1>1, <1>2, <1>9
<1>11. \A i \in 1..Slots : h[i] # Free <=> i <= n
  <2> TAKE i \in 1..Slots
  <2>0. i \in Nat /\ x \in Nat /\ y \in Nat BY <1>0, <1>1, <1>2
  <2>1. CASE i < k
    <3>1. h[i] # Free <=> i <= x \/ i <= y BY <2>1, <1>4, <1>7
    <3>2. i <= x \/ i <= y <=> i <= n BY <2>0, <2>1, <1>0
    <3> HIDE DEF n
    <3> QED BY <3>1, <3>2
  <2>2. CASE i = k /\ cut
    <3>1. h[i] # Free BY <2>2, <1>7, Apart
    <3>2. i <= n BY <2>0, <2>2, <1>0, <1>9
    <3> HIDE DEF n
    <3> QED BY <3>1, <3>2
  <2>3. CASE i = k /\ ~cut
    <3>1. h[i] = b[i] BY <2>3, <1>7
    <3>2. h[i] # Free <=> i <= x BY <3>1, <1>1
    <3>3. i <= x <=> i <= n BY <2>0, <2>3, <1>0
    <3> HIDE DEF n
    <3> QED BY <3>2, <3>3
  <2>4. CASE i > k
    <3>1. h[i] # Free <=> i <= x BY <2>4, <1>1, <1>7
    <3>2. i <= x <=> i <= n BY <2>0, <2>4, <1>0
    <3> HIDE DEF n
    <3> QED BY <3>1, <3>2
  <2> HIDE DEF n
  <2> QED BY <2>0, <2>1, <2>2, <2>3, <2>4, <1>0
<1>12. \A i \in 1..Slots : IsCrc(h[i]) => i = n
  <2> TAKE i \in 1..Slots
  <2>0. i \in Nat /\ x \in Nat /\ y \in Nat BY <1>0, <1>1, <1>2
  <2>1. CASE i < k
    <3>1. IsCrc(h[i]) => (i = x \/ i = y) /\ (i <= x => i = x) /\ (i <= y => i = y)
      BY <2>1, <1>5, <1>7
    <3>2. (i = x \/ i = y) /\ (i <= x => i = x) /\ (i <= y => i = y) => i = n
      BY <2>0, <2>1, <1>0, <1>9
    <3> HIDE DEF n
    <3> QED BY <3>1, <3>2
  <2>2. CASE i = k /\ cut BY <2>2, <1>7, Apart
  <2>3. CASE (i = k /\ ~cut) \/ i > k
    <3>1. h[i] = b[i] BY <2>3, <1>7
    <3>2. IsCrc(h[i]) => i = x BY <3>1, <1>1
    <3>3. i = x => i = n BY <2>0, <2>3, <1>0
    <3> HIDE DEF n
    <3> QED BY <3>2, <3>3
  <2> HIDE DEF n
  <2> QED BY <2>0, <2>1, <2>2, <2>3, <1>0
<1> HIDE DEF n
<1> QED BY <1>8, <1>10, <1>11, <1>12 DEF Shaped

(* What the flash holds of a write that was cut off. *)
LEMMA HalfWrittenIs ==
  ASSUME NEW bank \in Banks, Shaped(bank), Closed(mirror), NEW h \in HalfWritten(bank)
  PROVE  /\ h \in Banks /\ Shaped(h)
         /\ Fits(bank, mirror) => \E k \in 1..Slots + 1 : \A i \in 1..Slots :
              \/ i < k /\ h[i] = BankOf(mirror)[i]
              \/ i >= k /\ h[i] = bank[i]
              \/ h[i] = Bad
<1> DEFINE m == BankOf(mirror)
<1>1. m \in Banks /\ Shaped(m) BY ClosedBank
<1>2. Image = m BY DEF Image, BankOf
<1>3. PICK k \in 1..Slots + 1, t \in BOOLEAN :
        h = [i \in 1..Slots |->
               CASE i < k -> Written(bank)[i]
                 [] i = k /\ t /\ Written(bank)[i] # bank[i] -> Bad
                 [] OTHER -> bank[i]]
  BY DEF HalfWritten
<1>4. \A i \in 1..Slots : Written(bank)[i] = And(bank[i], m[i]) BY <1>2 DEF Written
<1> HIDE DEF m
<1>5. h = [i \in 1..Slots |->
             CASE i < k -> And(bank[i], m[i])
               [] i = k /\ t /\ And(bank[i], m[i]) # bank[i] -> Bad
               [] OTHER -> bank[i]]
  BY <1>3, <1>4
<1>6. h \in Banks /\ Shaped(h)
  <2>1. h = Mixed(bank, m, k, t) BY <1>5 DEF Mixed
  <2> QED BY <2>1, <1>1, MixShaped
<1>7. ASSUME Fits(bank, mirror), NEW i \in 1..Slots
      PROVE  \/ i < k /\ h[i] = m[i]
             \/ i >= k /\ h[i] = bank[i]
             \/ h[i] = Bad
  <2>1. And(bank[i], m[i]) = m[i] BY <1>7 DEF Fits, m
  <2>2. i \in Nat /\ k \in Nat /\ (i < k \/ i >= k) BY KvpfsAssumption
  <2>3. CASE i < k BY <2>1, <2>3, <1>5
  <2>4. CASE i >= k
    <3>1. ~(i < k) BY <2>2, <2>4
    <3> QED BY <2>4, <3>1, <1>5
  <2> QED BY <2>2, <2>3, <2>4
<1> QED BY <1>6, <1>7 DEF m

(* A closed log that agrees with a bank up to its CRC is what it holds.    *)
LEMMA SameBank ==
  ASSUME NEW a, NEW b, Closed(a), Closed(b), \A i \in 1..Len(a) : BankOf(b)[i] = a[i]
  PROVE  a = b
<1>1. /\ a \in Seq(Strings) /\ Len(a) \in 1..Slots /\ \A i \in 1..Len(a) : IsCrc(a[i]) <=> i = Len(a)
      /\ b \in Seq(Strings) /\ Len(b) \in 1..Slots /\ \A i \in 1..Len(b) : IsCrc(b[i]) <=> i = Len(b)
  BY ClosedIs
<1> DEFINE n == Len(a)
           B == BankOf(b)
<1>2. /\ \A i \in 1..Len(b) : i \in 1..Slots /\ B[i] = b[i]
      /\ \A i \in 1..Slots : B[i] # Free <=> i <= Len(b)
  BY <1>1, BankOfIs, KvpfsAssumption
<1>3. n \in Nat /\ n >= 1 /\ n <= Slots /\ Len(b) \in Nat /\ Slots \in Nat BY <1>1, KvpfsAssumption
<1>4. a[n] \in Strings /\ IsCrc(a[n]) /\ B[n] = a[n] BY <1>1, <1>3
<1>5. n = Len(b)
  <2>1. B[n] # Free BY <1>4, Apart
  <2>2. n <= Len(b) /\ n \in 1..Len(b)
    <3> HIDE DEF n, B
    <3> QED BY <2>1, <1>2, <1>3
  <2>3. B[n] = b[n]
    <3> HIDE DEF n, B
    <3> QED BY <2>2, <1>2
  <2> HIDE DEF n, B
  <2> QED BY <2>2, <2>3, <1>1, <1>4
<1>6. \A i \in 1..Len(a) : a[i] = b[i] BY <1>2, <1>5
<1> QED BY <1>1, <1>5, <1>6, SeqEqual

(* A write that was cut off leaves a bank that is not valid, or that holds *)
(* what it did before, or the mirror.                                      *)
LEMMA HalfValid ==
  ASSUME NEW bank \in Banks, bank = Erased \/ Saved(bank), Closed(mirror), Fits(bank, mirror),
         NEW h \in HalfWritten(bank), Valid(h)
  PROVE  h = BankOf(mirror) \/ (h = bank /\ Saved(bank))
<1>1. Shaped(bank) BY SavedBank, ErasedBank
<1>2. Saved(h) BY <1>1, HalfWrittenIs, ValidSaved
<1>3. PICK log : Closed(log) /\ h = BankOf(log) BY <1>2, SavedIs
<1> DEFINE n == Len(log)
<1>4. log \in Seq(Strings) /\ n \in 1..Slots /\ \A i \in 1..n : IsCrc(log[i]) <=> i = n BY <1>3, ClosedIs
<1>5. /\ \A i \in 1..n : i \in 1..Slots /\ h[i] = log[i]
      /\ \A i \in 1..Slots : h[i] # Free <=> i <= n
  BY <1>3, <1>4, BankOfIs, KvpfsAssumption
<1>6. n \in Nat /\ n >= 1 /\ n <= Slots /\ Slots \in Nat BY <1>4, KvpfsAssumption
<1>7. \A i \in 1..n : h[i] # Bad
  <2> TAKE i \in 1..n
  <2>1. log[i] \in Strings /\ log[i] \in Cells BY <1>4, Logs
  <2> QED BY <2>1, <1>5, CellIs
<1> HIDE DEF n
<1>8. PICK k \in 1..Slots + 1 : \A i \in 1..Slots :
        \/ i < k /\ h[i] = BankOf(mirror)[i]
        \/ i >= k /\ h[i] = bank[i]
        \/ h[i] = Bad
  BY <1>1, HalfWrittenIs
<1>9. \A i \in 1..n : (i < k => h[i] = BankOf(mirror)[i]) /\ (i >= k => h[i] = bank[i])
  BY <1>5, <1>6, <1>7, <1>8
<1>10. CASE n < k
  <2>1. \A i \in 1..n : BankOf(mirror)[i] = log[i] BY <1>5, <1>6, <1>9, <1>10
  <2>2. log = mirror BY <2>1, <1>3, SameBank DEF n
  <2> QED BY <2>2, <1>3
<1>11. CASE n >= k
  <2>1. n \in 1..n /\ h[n] = bank[n] /\ h[n] = log[n] BY <1>5, <1>6, <1>9, <1>11
  <2>2. IsCrc(bank[n])
    <3>1. IsCrc(log[n]) BY <2>1, <1>4 DEF n
    <3> QED BY <2>1, <3>1
  <2>3. bank # Erased BY <2>2, <1>6, ErasedBank, Apart
  <2>4. PICK old : Closed(old) /\ bank = BankOf(old) BY <2>3, SavedIs
  <2>5. /\ old \in Seq(Strings) /\ Len(old) \in 1..Slots
        /\ \A i \in 1..Len(old) : IsCrc(old[i]) <=> i = Len(old)
        /\ old[Len(old)][2] = SubSeq(old, 1, Len(old) - 1)
    BY <2>4, ClosedIs
  <2>6. n = Len(old) /\ old[n] = log[n]
    <3>1. /\ \A i \in 1..Len(old) : bank[i] = old[i]
          /\ \A i \in 1..Slots : bank[i] # Free <=> i <= Len(old)
      BY <2>4, <2>5, BankOfIs, KvpfsAssumption
    <3>2. bank[n] # Free BY <2>2, Apart
    <3>3. n \in 1..Len(old) BY <3>1, <3>2, <1>6, <2>5
    <3> QED BY <3>1, <3>3, <2>1, <2>2, <2>5
  <2>7. log = Append(SubSeq(log, 1, n - 1), log[n]) /\ old = Append(SubSeq(old, 1, n - 1), old[n])
    <3>1. \A s \in Seq(Strings) : Len(s) = n => s = Append(SubSeq(s, 1, n - 1), s[n])
      <4> SUFFICES ASSUME NEW s \in Seq(Strings), Len(s) = n PROVE s = Append(SubSeq(s, 1, n - 1), s[n])
        OBVIOUS
      <4>1. /\ SubSeq(s, 1, n - 1) \in Seq(Strings)
            /\ Len(SubSeq(s, 1, n - 1)) = IF 1 <= n - 1 THEN n - 1 - 1 + 1 ELSE 0
            /\ \A i \in 1..n - 1 - 1 + 1 : SubSeq(s, 1, n - 1)[i] = s[1 + i - 1]
        <5>1. \A i \in 1..n - 1 : s[i] \in Strings BY <1>6
        <5>2. n - 1 \in Int /\ 1 \in Int BY <1>6
        <5> QED BY <5>1, <5>2, SubSeqProperties
      <4> DEFINE c == SubSeq(s, 1, n - 1)
                 d == Append(c, s[n])
      <4> HIDE DEF c
      <4>2. c \in Seq(Strings) /\ Len(c) = n - 1 /\ \A i \in 1..n - 1 : c[i] = s[i]
        <5>1. \A i \in 1..n - 1 : i \in 1..n - 1 - 1 + 1 /\ 1 + i - 1 = i BY <1>6
        <5>2. Len(c) = n - 1 BY <4>1, <1>6 DEF c
        <5> QED BY <5>1, <5>2, <4>1 DEF c
      <4>3. s[n] \in Strings BY <1>6
      <4>4. d \in Seq(Strings) /\ Len(d) = Len(c) + 1 /\ d[Len(c) + 1] = s[n] /\ \A i \in 1..Len(c) : d[i] = c[i]
        BY <4>2, <4>3
      <4> HIDE DEF d
      <4>5. Len(c) + 1 = n /\ \A i \in 1..n : i = n \/ i \in 1..n - 1 BY <4>2, <1>6
      <4>6. Len(d) = Len(s) /\ \A i \in 1..Len(s) : d[i] = s[i] BY <4>2, <4>4, <4>5
      <4>7. d = s BY <4>4, <4>6, SeqEqual
      <4> QED BY <4>7 DEF d, c
    <3>2. Len(log) = n BY DEF n
    <3>3. log \in Seq(Strings) /\ old \in Seq(Strings) BY <1>4, <2>5
    <3> QED BY <3>1, <3>2, <3>3, <2>6
  <2>8. log[n][2] = SubSeq(log, 1, n - 1) BY <1>3, ClosedIs DEF n
  <2>9. log = old BY <2>5, <2>6, <2>7, <2>8
  <2> QED BY <2>4, <2>9, <1>3, <2>3
<1> QED BY <1>6, <1>10, <1>11

(* A copy of a bank that was cut off, between two strings or in one, is    *)
(* not valid, or whole.                                                    *)
LEMMA HalfCopiedIs ==
  ASSUME NEW bank, Saved(bank), NEW h \in HalfCopied(bank)
  PROVE  h \in Banks /\ Legible(h) /\ (Valid(h) => h = bank)
<1>1. bank \in Banks /\ Shaped(bank) BY SavedBank
<1>0. PICK k \in 1..Slots, torn \in BOOLEAN :
        h = [i \in 1..Slots |-> CASE i < k -> bank[i]
                                 [] i = k /\ torn /\ bank[i] # Free -> Bad
                                 [] OTHER -> Free]
  BY DEF HalfCopied
<1> DEFINE Cut(i) == i = k /\ torn /\ bank[i] # Free
<1>6. \A i \in 1..Slots : /\ i < k => h[i] = bank[i]
                          /\ ~(i < k) /\ Cut(i) => h[i] = Bad
                          /\ ~(i < k) /\ ~Cut(i) => h[i] = Free
  BY <1>0
<1>2. h \in Banks
  <2>1. \A i \in 1..Slots : bank[i] \in Cells BY <1>1 DEF Banks
  <2>2. \A i \in 1..Slots : h[i] \in Cells BY <1>6, <2>1 DEF Cells
  <2>3. h = [i \in 1..Slots |-> h[i]] BY <1>0
  <2> HIDE DEF Cut
  <2> QED BY <2>2, <2>3 DEF Banks
<1>3. Shaped(h)
  <2>1. PICK n \in 0..Slots :
          \A i \in 1..Slots : (bank[i] # Free <=> i <= n) /\ (IsCrc(bank[i]) => i = n)
    BY <1>1 DEF Shaped
  <2> DEFINE x == IF n < k THEN n ELSE IF torn THEN k ELSE k - 1
  <2>2. x \in 0..Slots BY KvpfsAssumption
  <2>3. \A i \in 1..Slots : h[i] # Free <=> i <= x BY <2>1, <1>6, Apart, KvpfsAssumption
  <2>4. \A i \in 1..Slots : IsCrc(h[i]) => i = x BY <2>1, <1>6, Apart, KvpfsAssumption
  <2> HIDE DEF x
  <2> QED BY <2>2, <2>3, <2>4 DEF Shaped
<1>4. Legible(h) BY <1>2, <1>3, ValidSaved DEF Legible
<1>5. ASSUME Valid(h) PROVE h = bank
  <2>1. PICK log : Closed(log) /\ h = BankOf(log) BY <1>2, <1>3, <1>5, ValidSaved, SavedIs
  <2>2. PICK old : Closed(old) /\ bank = BankOf(old) BY SavedIs
  <2>3. log \in Seq(Strings) /\ Len(log) \in 1..Slots BY <2>1, ClosedIs
  <2>4. /\ \A i \in 1..Len(log) : i \in 1..Slots /\ h[i] = log[i]
        /\ \A i \in 1..Slots : h[i] # Free <=> i <= Len(log)
    BY <2>1, <2>3, BankOfIs, KvpfsAssumption
  <2>5. \A i \in 1..Len(log) : i \in 1..Slots /\ h[i] # Free BY <2>3, <2>4, KvpfsAssumption
  <2>6. \A i \in 1..Len(log) : bank[i] = log[i]
    <3> TAKE i \in 1..Len(log)
    <3>1. i \in 1..Slots /\ h[i] # Free BY <2>5
    <3>2. h[i] # Bad
      <4>1. log[i] \in Strings /\ log[i] \in Cells BY <2>3, Logs
      <4> QED BY <4>1, <2>4, CellIs
    <3>3. h[i] = bank[i] BY <3>1, <3>2, <1>6
    <3> QED BY <3>3, <2>4
  <2>7. log = old BY <2>1, <2>2, <2>6, SameBank
  <2> QED BY <2>1, <2>2, <2>7
<1> QED BY <1>2, <1>4, <1>5

(* What fits on a bank fits with strings deleted and added. *)
LEMMA FitsMore ==
  ASSUME NEW bank, NEW a \in Seq(Strings), NEW b \in Seq(Strings),
         Len(a) <= Len(b), Len(b) <= Slots, \A i \in 1..Len(a) : b[i] \in {a[i], Zero}, Fits(bank, a)
  PROVE  Fits(bank, b)
<1>1. Len(a) \in Nat /\ Len(b) \in Nat /\ Slots \in Nat BY KvpfsAssumption
<1> SUFFICES ASSUME NEW i \in 1..Slots PROVE And(bank[i], BankOf(b)[i]) = BankOf(b)[i] BY DEF Fits
<1>2. And(bank[i], BankOf(a)[i]) = BankOf(a)[i] BY DEF Fits
<1>3. /\ BankOf(a)[i] = IF i <= Len(a) THEN a[i] ELSE Free
      /\ BankOf(b)[i] = IF i <= Len(b) THEN b[i] ELSE Free
  BY DEF BankOf
<1>4. CASE i <= Len(a)
  <2>1. BankOf(a)[i] = a[i] /\ BankOf(b)[i] = b[i] BY <1>1, <1>3, <1>4
  <2>2. b[i] \in {a[i], Zero} BY <1>1, <1>4
  <2> QED BY <2>1, <2>2, <1>2, AndIs
<1>5. CASE ~(i <= Len(a))
  <2>1. And(bank[i], Free) = Free BY <1>2, <1>3, <1>5
  <2>2. bank[i] = Free BY <2>1, AndIs
  <2> QED BY <2>2, AndIs
<1> QED BY <1>4, <1>5

(* A log fits on an erased bank, and on one that holds it. *)
LEMMA FitsSelf ==
  ASSUME NEW log
  PROVE  Fits(Erased, log) /\ Fits(BankOf(log), log)
  BY ErasedBank, AndIs DEF Fits

(* What write_to_flash leaves of a bank that was not cut off. *)
LEMMA RewrittenIs ==
  ASSUME NEW bank \in Banks, Shaped(bank), Closed(mirror)
  PROVE  /\ Rewritten(bank) \in Banks /\ Shaped(Rewritten(bank))
         /\ erase \/ Fits(bank, mirror) => Rewritten(bank) = BankOf(mirror)
<1>1. ASSUME NEW b \in Banks, Shaped(b)
      PROVE  /\ Written(b) \in Banks /\ Shaped(Written(b))
             /\ Fits(b, mirror) => Written(b) = BankOf(mirror)
  <2>1. Image = BankOf(mirror) BY DEF Image, BankOf
  <2>2. BankOf(mirror) \in Banks /\ Shaped(BankOf(mirror)) BY ClosedBank
  <2>3. Slots + 1 \in 1..Slots + 1 /\ \A i \in 1..Slots : i < Slots + 1 BY KvpfsAssumption
  <2>4. Written(b) = Mixed(b, BankOf(mirror), Slots + 1, FALSE)
    BY <2>1, <2>3 DEF Written, Mixed
  <2>5. Written(b) \in Banks /\ Shaped(Written(b))
    <3>1. FALSE \in BOOLEAN OBVIOUS
    <3> QED BY <3>1, <1>1, <2>2, <2>3, <2>4, MixShaped
  <2>6. ASSUME Fits(b, mirror) PROVE Written(b) = BankOf(mirror)
    <3>1. Written(b) = [i \in 1..Slots |-> BankOf(mirror)[i]] BY <2>1, <2>6 DEF Written, Fits
    <3> QED BY <3>1 DEF BankOf
  <2> QED BY <2>5, <2>6
<1>2. CASE erase BY <1>1, <1>2, ErasedBank, FitsSelf DEF Rewritten
<1>3. CASE ~erase BY <1>1, <1>3 DEF Rewritten
<1> QED BY <1>2, <1>3

\* get_env, of any mirror and list.
Get(m, l, k) == IF HasKey(m, k) THEN Lookup(m, k) ELSE Lookup(l, k)

(* get_env finds the value that is in the mirror or in the list. *)
LEMMA GetIs ==
  ASSUME NEW m, NEW l, IsLog(m), IsLog(l), Unique(m), Unique(l), NEW k \in Keys,
         ~(HasKey(m, k) /\ HasKey(l, k))
  PROVE  /\ Get(m, l, k) \in Values \cup {NoValue}
         /\ \A v \in Values : Get(m, l, k) = v <=> Has(m, k, v) \/ Has(l, k, v)
<1>1. /\ Lookup(m, k) \in Values \cup {NoValue} /\ Lookup(l, k) \in Values \cup {NoValue}
      /\ HasKey(m, k) <=> Lookup(m, k) # NoValue
      /\ HasKey(l, k) <=> Lookup(l, k) # NoValue
  BY LookupType
<1>2. Get(m, l, k) \in Values \cup {NoValue} BY <1>1 DEF Get
<1>3. ASSUME NEW log \in {m, l}, NEW v \in Values PROVE Lookup(log, k) = v <=> Has(log, k, v)
  <2>1. ASSUME Has(log, k, v) PROVE Lookup(log, k) = v BY <2>1, LookupHas
  <2>2. ASSUME Lookup(log, k) = v PROVE Has(log, k, v)
    <3>1. v # NoValue BY KvpfsAssumption
    <3> QED BY <2>2, <3>1, LookupType
  <2> QED BY <2>1, <2>2
<1>4. ASSUME NEW v \in Values PROVE Get(m, l, k) = v <=> Has(m, k, v) \/ Has(l, k, v)
  <2>1. v # NoValue BY KvpfsAssumption
  <2> QED BY <2>1, <1>1, <1>3 DEF Get
<1> QED BY <1>2, <1>4

(* With nothing in the list, what the mirror says. *)
LEMMA GetMirror ==
  ASSUME NEW m \in Seq(Strings), Unique(m)
  PROVE  /\ Unique(<<>>) /\ \A k \in Keys : ~HasKey(<<>>, k) /\ Get(m, <<>>, k) = Lookup(m, k)
         /\ \A k \in Keys : Get(m, <<>>, k) = MapOf(m)[k]
<1>1. \A k \in Keys : ~HasKey(<<>>, k) BY DEF HasKey, LiveIn
<1>2. Unique(<<>>) BY DEF Unique
<1>3. \A k \in Keys : Lookup(<<>>, k) = NoValue BY <1>1 DEF Lookup
<1>4. \A k \in Keys : HasKey(m, k) <=> Lookup(m, k) # NoValue BY Logs, LookupType
<1>5. \A k \in Keys : Get(m, <<>>, k) = Lookup(m, k) BY <1>3, <1>4 DEF Get
<1> QED BY <1>1, <1>2, <1>5 DEF MapOf

(* The mirror that a boot without a valid bank sets up. *)
LEMMA DefaultIs ==
  Closed(DefaultMirror) /\ MapOf(DefaultMirror) = Nothing /\ MapOf(Erased) = Nothing
<1>1. <<>> \in Bodies
  <2>1. <<>> \in Seq(Entries \cup {Zero}) OBVIOUS
  <2> QED BY <2>1 DEF Bodies, Unique
<1>2. Closed(Append(<<>>, Crc(<<>>)))
  <2>1. Len(<<>>) < Slots BY KvpfsAssumption
  <2> QED BY <1>1, <2>1, CloseBody
<1>3. Append(<<>>, Crc(<<>>)) = DefaultMirror BY DEF DefaultMirror
<1>4. ASSUME NEW log \in {DefaultMirror, Erased}, NEW k \in Keys PROVE Lookup(log, k) = NoValue
  <2>1. \A i \in DOMAIN log : ~IsEntry(log[i])
    <3>1. \A i \in DOMAIN DefaultMirror : DefaultMirror[i] = Crc(<<>>) BY DEF DefaultMirror
    <3>2. \A i \in DOMAIN Erased : Erased[i] = Free BY DEF Erased
    <3> QED BY <3>1, <3>2, Apart
  <2> QED BY <2>1 DEF Lookup, HasKey, LiveIn
<1> QED BY <1>2, <1>3, <1>4 DEF MapOf, Nothing
-----------------------------------------------------------------------------
(* A fresh device. *)
LEMMA InitIInv == Init => IInv
<1> SUFFICES ASSUME Init PROVE IInv OBVIOUS
<1> USE DEF Init
<1>1. /\ DefaultMirror \in Seq(Strings) /\ Len(DefaultMirror) <= Slots /\ Unique(DefaultMirror)
      /\ MapOf(DefaultMirror) = Nothing
  BY DefaultIs, ClosedIs, KvpfsAssumption
<1>2. Nothing \in Contents BY DEF Nothing, Contents
<1>3. <<>> \in Seq(Entries) OBVIOUS
<1>4. Typed
  <2>1. lost \in 0..MaxLost BY KvpfsAssumption
  <2>2. env \in Contents /\ outcomes \subseteq Contents BY <1>2
  <2>3. mirror \in Seq(Strings) /\ Len(mirror) <= Slots /\ list \in Seq(Entries) BY <1>1, <1>3
  <2>4. primary \in Banks /\ backup \in Banks BY ErasedBank
  <2> QED BY <2>1, <2>2, <2>3, <2>4 DEF Typed
<1>5. Homes BY <1>1, GetMirror DEF Homes
<1>6. Flows BY DEF Flows
<1>7. BanksLegible BY ErasedBank DEF BanksLegible, Legible
<1>8. Told
  <2>1. ASSUME NEW k \in Keys PROVE GetEnv(k) = env[k]
    <3>1. Get(mirror, list, k) = Nothing[k] BY <1>1, GetMirror
    <3> QED BY <3>1 DEF GetEnv, Get
  <2> QED BY <2>1 DEF Told, AsSet
<1>9. Writable BY FitsSelf DEF Writable
<1>10. Durable BY DEF Durable, Blank
<1>11. Findable BY DEF Findable
<1> QED BY <1>4, <1>5, <1>6, <1>7, <1>8, <1>9, <1>10, <1>11 DEF IInv

(* A call that changes the mirror and the list only: the mirror can still  *)
(* be written over the primary bank, if strings were deleted or added.     *)
LEMMA RamStep ==
  ASSUME IInv, pc = "up", UNCHANGED <<flash, pc, outcomes, paired>>, Typed', Homes', Told',
         ~erase' => /\ ~erase /\ Len(mirror) <= Len(mirror')
                    /\ \A i \in 1..Len(mirror) : mirror'[i] \in {mirror[i], Zero}
  PROVE  IInv'
<1> USE DEF flash
<1>1. Flows' BY DEF Flows
<1>2. BanksLegible' BY DEF IInv, BanksLegible
<1>3. Writable'
  <2>1. ASSUME ~erase' PROVE Fits(primary', mirror')
    <3>1. Fits(primary, mirror) BY <2>1 DEF IInv, Writable
    <3>2. mirror \in Seq(Strings) /\ mirror' \in Seq(Strings) /\ Len(mirror') <= Slots
      BY DEF IInv, Typed
    <3>3. Fits(primary, mirror') BY <2>1, <3>1, <3>2, FitsMore
    <3> QED BY <3>3
  <2> QED BY <2>1 DEF Writable
<1>4. Durable' BY DEF IInv, Durable, Blank
<1>5. Findable' BY DEF IInv, Findable
<1> QED BY <1>1, <1>2, <1>3, <1>4, <1>5 DEF IInv

(* The state of the mirror and of the list, as the lemmas above take it. *)
LEMMA State ==
  ASSUME IInv
  PROVE  /\ mirror \in Seq(Strings) /\ list \in Seq(Entries) /\ IsLog(mirror) /\ IsLog(list)
         /\ Unique(mirror) /\ Unique(list)
         /\ \A k \in Keys : ~(HasKey(mirror, k) /\ HasKey(list, k))
         /\ \A k \in Keys : GetEnv(k) = Get(mirror, list, k)
  BY Logs DEF IInv, Typed, Homes, GetEnv, Get

(* set_env with a value: the key leaves the mirror and is in the list, but *)
(* for the node that is linked behind a freed one.                         *)
LEMMA SetEnvStep ==
  ASSUME IInv, NEW k \in Keys, NEW v \in Values, SetEnv(k, v)
  PROVE  IInv'
<1> DEFINE D == Deleted(mirror, k)
<1>1. /\ pc = "up" /\ mirror' = D /\ env' = [env EXCEPT ![k] = v]
      /\ UNCHANGED <<erase, flash, pc, outcomes, paired>>
  BY DEF SetEnv
<1>2. /\ D \in Seq(Strings) /\ Len(D) = Len(mirror)
      /\ \A i \in 1..Len(mirror) : D[i] \in {mirror[i], Zero}
      /\ Unique(D)
      /\ \A q \in Keys, u \in Values : Has(D, q, u) <=> q # k /\ Has(mirror, q, u)
  BY State, DeletedIs
<1> HIDE DEF D
<1>3. IsLog(D) BY <1>2, Logs
<1>4. /\ Len(mirror) \in Nat /\ Len(mirror) <= Slots /\ erase \in BOOLEAN /\ env \in Contents
      /\ slipped \in BOOLEAN /\ lost \in 0..MaxLost /\ adrift \in BOOLEAN
  BY DEF IInv, Typed
<1>5. env' \in Contents /\ env'[k] = v /\ \A q \in Keys : q # k => env'[q] = env[q]
  BY <1>1, <1>4 DEF Contents
<1>6. \A q \in Keys : HasKey(D, q) => q # k /\ HasKey(mirror, q)
  <2> TAKE q \in Keys
  <2>1. HasKey(D, q) => \E u \in Values : Has(D, q, u) BY <1>2, <1>3, LookupType
  <2>2. (\E u \in Values : Has(mirror, q, u)) => HasKey(mirror, q) BY State, LookupType
  <2> QED BY <2>1, <2>2, <1>2
<1>7. CASE /\ list' \in Seq(Entries) /\ Unique(list')
           /\ \A q \in Keys, u \in Values : Has(list', q, u) <=> (q = k /\ u = v) \/ (q # k /\ Has(list, q, u))
           /\ adrift' \in BOOLEAN /\ UNCHANGED <<lost, slipped>>
  <2>1. Typed' BY <1>1, <1>2, <1>4, <1>5, <1>7 DEF Typed, IInv, flash
  <2>2. IsLog(list') BY <1>7, Logs
  <2>3. \A q \in Keys : ~(HasKey(D, q) /\ HasKey(list', q))
    <3> SUFFICES ASSUME NEW q \in Keys, HasKey(D, q), HasKey(list', q) PROVE FALSE OBVIOUS
    <3>1. q # k /\ HasKey(mirror, q) BY <1>6
    <3>2. PICK u \in Values : Has(list', q, u) BY <1>7, <2>2, LookupType
    <3>3. Has(list, q, u) BY <3>1, <3>2, <1>7
    <3>4. HasKey(list, q) BY <3>3, State, LookupType
    <3> QED BY <3>1, <3>4, State
  <2>4. Homes' BY <1>1, <1>2, <1>7, <2>3 DEF Homes
  <2>5. Told'
    <3> SUFFICES ASSUME ~slipped, NEW q \in Keys PROVE AsSet(q, Get(D, list', q), env'[q])
      BY <1>1, <1>7 DEF Told, GetEnv, Get
    <3>1. /\ Get(D, list', q) \in Values \cup {NoValue}
          /\ \A u \in Values : Get(D, list', q) = u <=> Has(D, q, u) \/ Has(list', q, u)
      BY <1>2, <1>3, <1>7, <2>2, <2>3, GetIs
    <3>2. CASE q = k BY <3>1, <3>2, <1>5, <1>7 DEF AsSet
    <3>3. CASE q # k
      <4>1. /\ Get(mirror, list, q) \in Values \cup {NoValue}
            /\ \A u \in Values : Get(mirror, list, q) = u <=> Has(mirror, q, u) \/ Has(list, q, u)
        BY State, GetIs
      <4>2. \A u \in Values : Get(D, list', q) = u <=> Get(mirror, list, q) = u
        BY <3>1, <3>3, <4>1, <1>2, <1>7
      <4>3. Get(D, list', q) = Get(mirror, list, q) BY <3>1, <4>1, <4>2
      <4>4. AsSet(q, Get(mirror, list, q), env[q]) BY <1>1, State DEF IInv, Told
      <4> QED BY <4>3, <4>4, <3>3, <1>5
    <3> QED BY <3>2, <3>3
  <2> QED BY <2>1, <2>4, <2>5, <1>1, <1>2, <1>4, RamStep
<1>8. CASE lost < MaxLost /\ lost' = lost + 1 /\ slipped' = TRUE /\ UNCHANGED <<list, adrift>>
  <2>1. lost' \in 0..MaxLost BY <1>4, <1>8, KvpfsAssumption
  <2>2. Typed' BY <1>1, <1>2, <1>4, <1>5, <1>8, <2>1 DEF Typed, IInv, flash
  <2>3. Homes' BY <1>1, <1>2, <1>6, <1>8, State DEF Homes
  <2>4. Told' BY <1>8 DEF Told
  <2> QED BY <2>2, <2>3, <2>4, <1>1, <1>2, <1>4, RamStep
<1>9. CASE Put(list', list, k, v) /\ adrift' \in BOOLEAN /\ UNCHANGED <<lost, slipped>>
  BY <1>7, <1>9 DEF Put
<1>10. CASE list = <<>> /\ list' = <<Entry(k, v)>> /\ adrift' = FALSE /\ UNCHANGED <<lost, slipped>>
  <2>1. ~HasKey(list, k) BY <1>10, State, GetMirror
  <2>2. Put(Append(list, Entry(k, v)), list, k, v) BY <2>1, State, LinkedIs
  <2>3. list' = Append(list, Entry(k, v)) BY <1>10
  <2> QED BY <2>2, <2>3, <1>9, <1>10
<1>11. CASE HasKey(list, k) /\ list' = [list EXCEPT ![FirstIn(list, k)] = Entry(k, v)]
            /\ UNCHANGED <<adrift, lost, slipped>>
  <2>1. Put([list EXCEPT ![FirstIn(list, k)] = Entry(k, v)], list, k, v) BY <1>11, State, ModifiedIs
  <2> QED BY <2>1, <1>4, <1>9, <1>11
<1>12. CASE ~HasKey(list, k) /\ list' = Append(list, Entry(k, v)) /\ UNCHANGED <<adrift, lost, slipped>>
  <2>1. Put(Append(list, Entry(k, v)), list, k, v) BY <1>12, State, LinkedIs
  <2> QED BY <2>1, <1>4, <1>9, <1>12
<1> QED BY <1>8, <1>10, <1>11, <1>12 DEF SetEnv

(* set_env without a value: the key is nowhere. *)
LEMMA UnsetEnvStep ==
  ASSUME IInv, NEW k \in Keys, UnsetEnv(k)
  PROVE  IInv'
<1> DEFINE D == Deleted(mirror, k)
<1>1. /\ pc = "up" /\ mirror' = D /\ env' = [env EXCEPT ![k] = NoValue]
      /\ UNCHANGED <<erase, lost, flash, pc, slipped, outcomes, paired>>
  BY DEF UnsetEnv
<1>2. /\ D \in Seq(Strings) /\ Len(D) = Len(mirror)
      /\ \A i \in 1..Len(mirror) : D[i] \in {mirror[i], Zero}
      /\ Unique(D)
      /\ \A q \in Keys, u \in Values : Has(D, q, u) <=> q # k /\ Has(mirror, q, u)
  BY State, DeletedIs
<1> HIDE DEF D
<1>3. IsLog(D) BY <1>2, Logs
<1>4. /\ Len(mirror) \in Nat /\ Len(mirror) <= Slots /\ erase \in BOOLEAN /\ env \in Contents
      /\ slipped \in BOOLEAN /\ lost \in 0..MaxLost /\ adrift \in BOOLEAN
  BY DEF IInv, Typed
<1>5. env' \in Contents /\ env'[k] = NoValue /\ \A q \in Keys : q # k => env'[q] = env[q]
  BY <1>1, <1>4 DEF Contents
<1>6. Gone(list', list, k) /\ adrift' \in BOOLEAN
  <2>1. CASE ~HasKey(mirror, k) /\ HasKey(list, k)
    <3>1. Gone(RemoveAt(list, FirstIn(list, k)), list, k) BY <2>1, State, RemovedIs
    <3>2. list' = RemoveAt(list, FirstIn(list, k)) /\ adrift' \in BOOLEAN BY <2>1, <1>4 DEF UnsetEnv
    <3> QED BY <3>1, <3>2
  <2>2. CASE ~(~HasKey(mirror, k) /\ HasKey(list, k))
    <3>1. list' = list /\ adrift' = adrift BY <2>2 DEF UnsetEnv
    <3>2. ~HasKey(list, k) BY <2>2, State
    <3>3. \A u \in Values : ~Has(list, k, u) BY <3>2, State, LookupType
    <3> QED BY <3>1, <3>3, <1>4, State DEF Gone
  <2> QED BY <2>1, <2>2
<1>7. /\ list' \in Seq(Entries) /\ Unique(list') /\ IsLog(list')
      /\ \A q \in Keys, u \in Values : Has(list', q, u) <=> q # k /\ Has(list, q, u)
  BY <1>6, Logs DEF Gone
<1>8. \A q \in Keys : (HasKey(D, q) => HasKey(mirror, q)) /\ (HasKey(list', q) => HasKey(list, q))
  <2> TAKE q \in Keys
  <2>1. HasKey(D, q) => \E u \in Values : Has(D, q, u) BY <1>2, <1>3, LookupType
  <2>2. (\E u \in Values : Has(mirror, q, u)) => HasKey(mirror, q) BY State, LookupType
  <2>3. HasKey(list', q) => \E u \in Values : Has(list', q, u) BY <1>7, LookupType
  <2>4. (\E u \in Values : Has(list, q, u)) => HasKey(list, q) BY State, LookupType
  <2> QED BY <2>1, <2>2, <2>3, <2>4, <1>2, <1>7
<1>9. Typed' BY <1>1, <1>2, <1>4, <1>5, <1>6, <1>7 DEF Typed, IInv, flash
<1>10. Homes' BY <1>1, <1>2, <1>7, <1>8, State DEF Homes
<1>11. Told'
  <2> SUFFICES ASSUME ~slipped, NEW q \in Keys PROVE AsSet(q, Get(D, list', q), env'[q])
    BY <1>1 DEF Told, GetEnv, Get
  <2>0. ~(HasKey(D, q) /\ HasKey(list', q)) BY <1>8, State
  <2>1. /\ Get(D, list', q) \in Values \cup {NoValue}
        /\ \A u \in Values : Get(D, list', q) = u <=> Has(D, q, u) \/ Has(list', q, u)
    BY <1>2, <1>3, <1>7, <2>0, GetIs
  <2>2. CASE q = k BY <2>1, <2>2, <1>2, <1>5, <1>7 DEF AsSet
  <2>3. CASE q # k
    <3>1. /\ Get(mirror, list, q) \in Values \cup {NoValue}
          /\ \A u \in Values : Get(mirror, list, q) = u <=> Has(mirror, q, u) \/ Has(list, q, u)
      BY State, GetIs
    <3>2. \A u \in Values : Get(D, list', q) = u <=> Get(mirror, list, q) = u
      BY <2>1, <2>3, <3>1, <1>2, <1>7
    <3>3. Get(D, list', q) = Get(mirror, list, q) BY <2>1, <3>1, <3>2
    <3>4. AsSet(q, Get(mirror, list, q), env[q]) BY <1>1, State DEF IInv, Told
    <3> QED BY <3>3, <3>4, <2>3, <1>5
  <2> QED BY <2>2, <2>3
<1> QED BY <1>1, <1>2, <1>4, <1>9, <1>10, <1>11, RamStep

\* The mirror d holds what the mirror and the list held, but for the keys
\* that begin with CRC_KEYNAME, and the mirror's strings where they were, or
\* deleted, if the bank is not erased.
Carried(d) ==
  /\ d \in Seq(Strings) /\ Unique(d)
  /\ Passed(d, mirror, list)
  /\ Enough => Len(d) >= Len(mirror) /\ \A i \in 1..Len(mirror) : d[i] \in {mirror[i], Zero}

(* What flush_list_to_mirror leaves, and what it asks for. *)
LEMMA FlushIs ==
  ASSUME IInv, Flush
  PROVE  /\ Carried(Flushed) /\ Len(Flushed) < Slots
         /\ erase' = (erase \/ ~Enough) /\ list' = <<>> /\ UNCHANGED <<adrift, lost>>
<1>1. Enough \/ EnoughIfCompacted BY DEF Flush
<1>2. Typed /\ Homes BY DEF IInv
<1> DEFINE D == Flushed
<1>3. /\ D \in Seq(Strings) /\ Len(D) < Slots /\ Unique(D)
      /\ Passed(D, mirror, list)
      /\ Enough => Len(D) >= Len(mirror) /\ \A i \in 1..Len(mirror) : D[i] = mirror[i]
  BY <1>1, <1>2, FlushedIs
<1> HIDE DEF D
<1>4. Carried(D) BY <1>3 DEF Carried
<1> QED BY <1>3, <1>4 DEF D, Flush, EraseAfter

(* A mirror that carries all that was there: every key's value is what it  *)
(* was, in the mirror, and the list is empty; or the key is gone.          *)
LEMMA CarriedIs ==
  ASSUME IInv, NEW d, Carried(d), NEW k \in Keys
  PROVE  AsSet(k, Get(d, <<>>, k), GetEnv(k))
<1>1. IsLog(d) /\ Unique(d) /\ d \in Seq(Strings) /\ Passed(d, mirror, list)
  BY Logs DEF Carried
<1>2. IsLog(<<>>) /\ Unique(<<>>) /\ ~HasKey(<<>>, k)
  <2>1. <<>> \in Seq(Entries) OBVIOUS
  <2>2. IsLog(<<>>) BY <2>1, Logs
  <2>3. Unique(<<>>) /\ ~HasKey(<<>>, k) BY <1>1, GetMirror
  <2> QED BY <2>2, <2>3
<1> DEFINE x == Get(d, <<>>, k)
           y == Get(mirror, list, k)
<1>3. /\ x \in Values \cup {NoValue}
      /\ \A u \in Values : x = u <=> Has(d, k, u) \/ Has(<<>>, k, u)
  BY <1>1, <1>2, GetIs
<1>4. /\ y \in Values \cup {NoValue}
      /\ \A u \in Values : y = u <=> Has(mirror, k, u) \/ Has(list, k, u)
  BY State, GetIs
<1>5. \A u : ~Has(<<>>, k, u) BY DEF Has
<1> HIDE DEF x, y
<1>6. \A u \in Values : /\ x = u => y = u
                        /\ k \notin CrcKeys /\ y = u => x = u
  BY <1>1, <1>3, <1>4, <1>5 DEF Passed
<1>7. AsSet(k, x, y)
  <2>1. CASE x \in Values
    <3>1. y = x BY <1>6, <2>1
    <3> QED BY <3>1 DEF AsSet
  <2>2. CASE x = NoValue /\ k \in CrcKeys BY <2>2 DEF AsSet
  <2>3. CASE x = NoValue /\ k \notin CrcKeys
    <3>1. y \notin Values BY <1>6, <2>3, KvpfsAssumption
    <3> QED BY <3>1, <1>4, <2>3 DEF AsSet
  <2> QED BY <1>3, <2>1, <2>2, <2>3
<1> QED BY <1>7, State DEF x, y

(* save_env_to_gpm: the list goes to the mirror. *)
LEMMA SaveEnvToGpmStep ==
  ASSUME IInv, SaveEnvToGpm
  PROVE  IInv'
<1> DEFINE D == Flushed
<1>1. /\ pc = "up" /\ mirror' = D /\ Flush
      /\ UNCHANGED <<flash, pc, env, slipped, outcomes, paired>>
  BY DEF SaveEnvToGpm, history
<1>2. /\ Carried(D) /\ Len(D) < Slots
      /\ erase' = (erase \/ ~Enough) /\ list' = <<>> /\ UNCHANGED <<adrift, lost>>
  BY <1>1, FlushIs
<1> HIDE DEF D
<1>3. D \in Seq(Strings) /\ Unique(D) /\ Len(D) <= Slots
  <2>1. D \in Seq(Strings) BY <1>2 DEF Carried
  <2>2. Len(D) \in Nat BY <2>1
  <2> QED BY <2>1, <2>2, <1>2, KvpfsAssumption DEF Carried
<1>4. Typed'
  <2>1. <<>> \in Seq(Entries) OBVIOUS
  <2> QED BY <2>1, <1>1, <1>2, <1>3 DEF Typed, IInv, flash
<1>5. Homes' BY <1>1, <1>2, <1>3, GetMirror DEF Homes
<1>6. Told'
  <2>1. ASSUME ~slipped, NEW k \in Keys PROVE AsSet(k, Get(D, <<>>, k), env[k])
    BY <2>1, <1>1, <1>2, CarriedIs DEF IInv, Told, AsSet
  <2> QED BY <2>1, <1>1, <1>2 DEF Told, GetEnv, Get
<1>7. ~erase' => /\ ~erase /\ Len(mirror) <= Len(mirror')
                 /\ \A i \in 1..Len(mirror) : mirror'[i] \in {mirror[i], Zero}
  <2>1. Len(mirror) \in Nat /\ Len(D) \in Nat BY <1>3, State
  <2>2. erase \in BOOLEAN BY DEF IInv, Typed
  <2> QED BY <2>1, <2>2, <1>1, <1>2 DEF Carried
<1> QED BY <1>1, <1>4, <1>5, <1>6, <1>7, RamStep

(* save_env up to the flash: the mirror gets its CRC, which closes it, and *)
(* fits on the primary bank if that is not to be erased.                   *)
LEMMA SaveBeginStep ==
  ASSUME IInv, SaveBegin
  PROVE  IInv'
<1> DEFINE D == Flushed
           E == WithCrc(D)
<1>1. /\ pc = "up" /\ mirror' = E /\ Flush /\ pc' = "primary"
      /\ outcomes' = outcomes \cup {MapOf(mirror')} /\ paired' = (primary = backup)
      /\ UNCHANGED <<primary, backup, env, slipped>>
  BY DEF SaveBegin, flash
<1>2. /\ Carried(D) /\ Len(D) < Slots
      /\ erase' = (erase \/ ~Enough) /\ list' = <<>> /\ UNCHANGED <<adrift, lost>>
  BY <1>1, FlushIs
<1> HIDE DEF D
<1>3. /\ Closed(E) /\ Len(E) = Len(D) + 1
      /\ \A i \in 1..Len(D) : E[i] \in {D[i], Zero}
      /\ \A q \in Keys, u \in Values : Has(E, q, u) <=> Has(D, q, u)
  <2>1. D \in Seq(Strings) /\ Unique(D) BY <1>2 DEF Carried
  <2> QED BY <1>2, <2>1, WithCrcIs
<1> HIDE DEF E
<1>4. E \in Seq(Strings) /\ Len(E) <= Slots /\ Len(E) \in Nat /\ Unique(E) BY <1>3, ClosedIs, KvpfsAssumption
<1>5. Carried(E)
  <2>1. Passed(E, mirror, list) BY <1>2, <1>3 DEF Carried, Passed
  <2>2. ASSUME Enough PROVE Len(E) >= Len(mirror) /\ \A i \in 1..Len(mirror) : E[i] \in {mirror[i], Zero}
    <3>1. Len(D) >= Len(mirror) /\ \A i \in 1..Len(mirror) : D[i] \in {mirror[i], Zero}
      BY <1>2, <2>2 DEF Carried
    <3>2. Len(D) \in Nat /\ Len(mirror) \in Nat BY <1>2, State DEF Carried
    <3>3. \A i \in 1..Len(mirror) : i \in 1..Len(D) BY <3>1, <3>2
    <3> QED BY <3>1, <3>2, <3>3, <1>3
  <2> QED BY <2>1, <2>2, <1>4 DEF Carried
<1>6. MapOf(E) \in Contents BY <1>4, Logs, MapType
<1>7. Typed'
  <2>1. <<>> \in Seq(Entries) OBVIOUS
  <2>2. erase' \in BOOLEAN /\ paired' \in BOOLEAN BY <1>1, <1>2
  <2>3. outcomes' \subseteq Contents BY <1>1, <1>6 DEF IInv, Typed
  <2> QED BY <2>1, <2>2, <2>3, <1>1, <1>2, <1>4 DEF Typed, IInv
<1>8. Homes' BY <1>1, <1>2, <1>4, GetMirror DEF Homes
<1>9. Flows' BY <1>1, <1>2, <1>3 DEF Flows
<1>10. BanksLegible' BY <1>1 DEF IInv, BanksLegible, Legible
<1>11. Told'
  <2>1. ASSUME ~slipped, NEW k \in Keys PROVE AsSet(k, Get(E, <<>>, k), env[k])
    BY <2>1, <1>1, <1>5, CarriedIs DEF IInv, Told, AsSet
  <2> QED BY <2>1, <1>1, <1>2 DEF Told, GetEnv, Get
<1>12. Writable'
  <2>1. ASSUME ~erase' PROVE Fits(primary, E)
    <3>1. ~erase /\ Enough BY <2>1, <1>2 DEF IInv, Typed
    <3>2. Fits(primary, mirror) BY <3>1, <1>1 DEF IInv, Writable
    <3>3. mirror \in Seq(Strings) /\ Len(mirror) \in Nat BY State
    <3>4. Len(mirror) <= Len(E) /\ \A i \in 1..Len(mirror) : E[i] \in {mirror[i], Zero}
      BY <3>1, <3>3, <1>4, <1>5 DEF Carried
    <3> QED BY <3>2, <3>3, <3>4, <1>4, FitsMore
  <2> QED BY <2>1, <1>1 DEF Writable
<1>13. Durable'
  <2>1. \/ Blank /\ Nothing \in outcomes
        \/ Saved(primary) /\ MapOf(primary) \in outcomes
    BY <1>1 DEF IInv, Durable
  <2>2. \/ Blank' /\ Nothing \in outcomes'
        \/ Saved(primary') /\ MapOf(primary') \in outcomes'
    BY <2>1, <1>1 DEF Blank
  <2>3. MapOf(mirror') \in outcomes' BY <1>1
  <2> QED BY <2>2, <2>3, <1>1 DEF Durable
<1>14. Findable' BY <1>1 DEF Findable
<1> QED BY <1>7, <1>8, <1>9, <1>10, <1>11, <1>12, <1>13, <1>14 DEF IInv

(* The primary bank is written: it holds the mirror. *)
LEMMA WritePrimaryStep ==
  ASSUME IInv, WritePrimary
  PROVE  IInv'
<1>1. /\ pc = "primary" /\ primary' = Rewritten(primary) /\ pc' = "backup"
      /\ UNCHANGED <<mirror, erase, list, adrift, lost, backup, env, slipped, outcomes, paired>>
  BY DEF WritePrimary, ram, history
<1>2. Closed(mirror) /\ primary \in Banks /\ Shaped(primary) BY <1>1 DEF IInv, Flows, Typed, BanksLegible
<1>3. erase \/ Fits(primary, mirror) BY <1>1 DEF IInv, Writable
<1>4. primary' = BankOf(mirror) BY <1>1, <1>2, <1>3, RewrittenIs
<1>5. primary' \in Banks /\ Shaped(primary') /\ Saved(primary') BY <1>2, <1>4, ClosedBank
<1>6. Typed' BY <1>1, <1>5 DEF IInv, Typed
<1>7. Homes' BY <1>1 DEF IInv, Homes
<1>8. Flows' BY <1>1, <1>2 DEF IInv, Flows
<1>9. BanksLegible' BY <1>1, <1>5 DEF IInv, BanksLegible, Legible
<1>10. Told' BY <1>1 DEF IInv, Told, GetEnv
<1>11. Writable' BY <1>1 DEF Writable
<1>12. Durable'
  <2>1. MapOf(mirror') \in outcomes' BY <1>1 DEF IInv, Durable
  <2>2. primary' = BankOf(mirror)' BY <1>1, <1>4
  <2> QED BY <2>1, <2>2, <1>1 DEF Durable
<1>13. Findable' BY <1>1 DEF Findable
<1> QED BY <1>6, <1>7, <1>8, <1>9, <1>10, <1>11, <1>12, <1>13 DEF IInv

(* The backup bank is written, and save_env returns. *)
LEMMA WriteBackupStep ==
  ASSUME IInv, WriteBackup
  PROVE  IInv'
<1>1. /\ pc = "backup" /\ backup' = Rewritten(backup) /\ erase' = FALSE /\ pc' = "up"
      /\ outcomes' = {MapOf(mirror)}
      /\ UNCHANGED <<mirror, list, adrift, lost, primary, env, slipped>>
      /\ paired' = TRUE
  BY DEF WriteBackup
<1>2. /\ Closed(mirror) /\ backup \in Banks /\ Shaped(backup) /\ Shaped(primary)
      /\ primary = BankOf(mirror)
  BY <1>1 DEF IInv, Flows, Typed, BanksLegible, Durable
<1>3. backup' \in Banks /\ Shaped(backup') BY <1>1, <1>2, RewrittenIs
<1>4. Saved(primary) /\ MapOf(primary) = MapOf(mirror) BY <1>2, ClosedBank
<1>5. MapOf(mirror) \in Contents BY State, MapType
<1>6. Typed' BY <1>1, <1>3, <1>5 DEF IInv, Typed
<1>7. Homes' BY <1>1 DEF IInv, Homes
<1>8. Flows' BY <1>1 DEF Flows
<1>9. BanksLegible'
  <2>1. Legible(backup') BY <1>3, ValidSaved DEF Legible
  <2> QED BY <2>1, <1>1, <1>2, <1>3 DEF IInv, BanksLegible, Legible
<1>10. Told' BY <1>1 DEF IInv, Told, GetEnv
<1>11. Writable' BY <1>1, <1>2, FitsSelf DEF Writable
<1>12. Durable' BY <1>1, <1>4 DEF Durable
<1>13. Findable' BY <1>1 DEF Findable
<1> QED BY <1>6, <1>7, <1>8, <1>9, <1>10, <1>11, <1>12, <1>13 DEF IInv
-----------------------------------------------------------------------------
(* The loss of power: the flash alone decides what the boot finds. *)
LEMMA OffStep ==
  ASSUME IInv, PowerOff, primary' \in Banks, backup' \in Banks,
         Legible(primary'), Legible(backup'), paired => Found(primary', backup')
  PROVE  IInv'
<1>1. /\ pc' = "boot" /\ mirror' = <<>> /\ erase' = FALSE /\ list' = <<>>
      /\ adrift' = FALSE /\ lost' = 0 /\ slipped' = FALSE /\ env' = Nothing
      /\ UNCHANGED <<outcomes, paired>>
  BY DEF PowerOff
<1>2. <<>> \in Seq(Entries) /\ <<>> \in Seq(Strings) /\ Len(<<>>) = 0 OBVIOUS
<1>3. Typed'
  <2>1. 0 \in 0..MaxLost /\ 0 <= Slots BY KvpfsAssumption
  <2>2. Nothing \in Contents BY DEF Nothing, Contents
  <2> QED BY <2>1, <2>2, <1>1, <1>2 DEF IInv, Typed
<1>4. Homes'
  <2>1. Unique(<<>>) /\ \A k \in Keys : ~HasKey(<<>>, k) BY DEF Unique, HasKey, LiveIn
  <2> QED BY <2>1, <1>1 DEF Homes
<1>5. Flows' BY <1>1 DEF Flows
<1>6. BanksLegible' BY <1>1 DEF BanksLegible, Legible
<1>7. Told' BY <1>1 DEF Told
<1>8. Writable' BY <1>1 DEF Writable
<1>9. Durable' BY <1>1 DEF Durable
<1>10. Findable' BY <1>1 DEF Findable, Found
<1> QED BY <1>3, <1>4, <1>5, <1>6, <1>7, <1>8, <1>9, <1>10 DEF IInv

(* Power is lost between two calls. *)
LEMMA CrashIdleStep ==
  ASSUME IInv, CrashIdle
  PROVE  IInv'
<1>1. pc = "up" /\ PowerOff /\ primary' = primary /\ backup' = backup BY DEF CrashIdle, flash
<1>2. /\ primary \in Banks /\ backup \in Banks /\ Legible(primary) /\ Legible(backup)
  BY DEF IInv, Typed, BanksLegible
<1>3. Found(primary, backup)
  <2>1. CASE Blank /\ Nothing \in outcomes BY <2>1, ErasedBank DEF Blank, Found
  <2>2. CASE Saved(primary) /\ MapOf(primary) \in outcomes BY <2>2, SavedBank DEF Found
  <2> QED BY <2>1, <2>2, <1>1 DEF IInv, Durable
<1> QED BY <1>1, <1>2, <1>3, OffStep

(* What is left of a bank that was being written again. *)
LEMMA HalfRewrittenIs ==
  ASSUME NEW bank \in Banks, Shaped(bank), Closed(mirror), erase \in BOOLEAN,
         NEW h \in HalfRewritten(bank, erase)
  PROVE  /\ h \in Banks /\ Legible(h)
         /\ /\ bank = Erased \/ Saved(bank)
            /\ erase \/ Fits(bank, mirror)
            /\ Valid(h)
            => h = BankOf(mirror) \/ (h = bank /\ Saved(bank))
<1>1. CASE h = bank BY <1>1, ValidSaved DEF Legible
<1>2. CASE erase /\ h \in HalfErased(bank) BY <1>2, HalfErasedIs DEF Legible
<1>3. CASE erase /\ h \in HalfWritten(Erased)
  <2>1. h \in Banks /\ Shaped(h) BY <1>3, ErasedBank, HalfWrittenIs
  <2>2. ASSUME Valid(h) PROVE h = BankOf(mirror)
    <3>1. h = BankOf(mirror) \/ Saved(Erased) BY <1>3, <2>2, ErasedBank, FitsSelf, HalfValid
    <3>2. ~Saved(Erased) BY ErasedBank, SavedBank
    <3> QED BY <3>1, <3>2
  <2> QED BY <2>1, <2>2, ValidSaved DEF Legible
<1>4. CASE ~erase /\ h \in HalfWritten(bank)
  <2>1. h \in Banks /\ Shaped(h) BY <1>4, HalfWrittenIs
  <2>2. ASSUME bank = Erased \/ Saved(bank), Fits(bank, mirror), Valid(h)
        PROVE  h = BankOf(mirror) \/ (h = bank /\ Saved(bank))
    BY <1>4, <2>2, HalfValid
  <2> QED BY <2>1, <2>2, <1>4, ValidSaved DEF Legible
<1> QED BY <1>1, <1>2, <1>3, <1>4 DEF HalfRewritten

(* Power is lost while the primary bank is written: it is not valid, or    *)
(* holds the old contents or the new; the backup holds the old ones.       *)
LEMMA CrashPrimaryStep ==
  ASSUME IInv, CrashPrimary
  PROVE  IInv'
<1>1. /\ pc = "primary" /\ PowerOff /\ backup' = backup
      /\ primary' \in HalfRewritten(primary, erase)
  BY DEF CrashPrimary
<1>2. /\ primary \in Banks /\ backup \in Banks /\ Shaped(primary) /\ Legible(backup)
      /\ erase \in BOOLEAN /\ Closed(mirror)
  BY <1>1 DEF IInv, Typed, BanksLegible, Flows
<1>3. erase \/ Fits(primary, mirror) BY <1>1 DEF IInv, Writable
<1>4. /\ \/ Blank /\ Nothing \in outcomes
         \/ Saved(primary) /\ MapOf(primary) \in outcomes
      /\ MapOf(mirror) \in outcomes
  BY <1>1 DEF IInv, Durable
<1>5. primary = Erased \/ Saved(primary) BY <1>4 DEF Blank
<1>6. /\ primary' \in Banks /\ Legible(primary')
      /\ Valid(primary') => primary' = BankOf(mirror) \/ (primary' = primary /\ Saved(primary))
  BY <1>1, <1>2, <1>3, <1>5, HalfRewrittenIs
<1>7. ASSUME paired PROVE Found(primary', backup)
  <2>1. primary = backup BY <1>1, <1>7 DEF IInv, Findable
  <2>2. CASE Valid(primary')
    <3>1. CASE primary' = BankOf(mirror)
      <4>1. MapOf(primary') = MapOf(mirror) BY <3>1, <1>2, ClosedBank
      <4> QED BY <4>1, <2>2, <1>4 DEF Found
    <3>2. CASE primary' = primary /\ Saved(primary)
      <4>1. ~Blank BY <3>2, ErasedBank, SavedBank DEF Blank
      <4> QED BY <4>1, <3>2, <2>2, <1>4 DEF Found
    <3> QED BY <3>1, <3>2, <2>2, <1>6
  <2>3. CASE ~Valid(primary')
    <3>1. CASE Blank /\ Nothing \in outcomes BY <3>1, <2>3, ErasedBank DEF Blank, Found
    <3>2. CASE Saved(primary) /\ MapOf(primary) \in outcomes
      BY <3>2, <2>1, <2>3, SavedBank DEF Found
    <3> QED BY <3>1, <3>2, <1>4
  <2> QED BY <2>2, <2>3
<1> QED BY <1>1, <1>2, <1>6, <1>7, OffStep

(* Power is lost while the backup bank is written: the primary one holds   *)
(* the mirror.                                                             *)
LEMMA CrashBackupStep ==
  ASSUME IInv, CrashBackup
  PROVE  IInv'
<1>1. /\ pc = "backup" /\ PowerOff /\ primary' = primary
      /\ backup' \in HalfRewritten(backup, erase)
  BY DEF CrashBackup
<1>2. /\ primary \in Banks /\ backup \in Banks /\ Shaped(backup) /\ Legible(primary)
      /\ erase \in BOOLEAN /\ Closed(mirror) /\ primary = BankOf(mirror) /\ MapOf(mirror) \in outcomes
  BY <1>1 DEF IInv, Typed, BanksLegible, Flows, Durable
<1>3. backup' \in Banks /\ Legible(backup') BY <1>1, <1>2, HalfRewrittenIs
<1>4. Valid(primary) /\ MapOf(primary) = MapOf(mirror) BY <1>2, ClosedBank
<1>5. Found(primary, backup') BY <1>2, <1>4 DEF Found
<1> QED BY <1>1, <1>2, <1>3, <1>5, OffStep

(* Power is lost while a bank is restored from the other, which is whole. *)
LEMMA CrashRestoreStep ==
  ASSUME IInv, CrashRestore
  PROVE  IInv'
<1>1. pc = "boot" /\ PowerOff BY DEF CrashRestore
<1>2. /\ primary \in Banks /\ backup \in Banks /\ Legible(primary) /\ Legible(backup)
      /\ paired => Found(primary, backup)
  BY <1>1 DEF IInv, Typed, BanksLegible, Findable
<1>3. CASE /\ Valid(primary) /\ ~Valid(backup)
           /\ backup' \in HalfErased(backup) \cup HalfCopied(primary)
           /\ UNCHANGED primary
  <2>1. Saved(primary) BY <1>2, <1>3 DEF Legible
  <2>2. backup' \in Banks /\ Legible(backup')
    <3>1. CASE backup' \in HalfErased(backup) BY <3>1, <1>2, HalfErasedIs DEF Legible
    <3>2. CASE backup' \in HalfCopied(primary) BY <3>2, <2>1, HalfCopiedIs
    <3> QED BY <3>1, <3>2, <1>3
  <2>3. paired => Found(primary, backup') BY <1>2, <1>3 DEF Found
  <2> QED BY <2>2, <2>3, <1>1, <1>2, <1>3, OffStep
<1>4. CASE /\ ~Valid(primary) /\ Valid(backup)
           /\ primary' \in HalfErased(primary) \cup HalfCopied(backup)
           /\ UNCHANGED backup
  <2>1. Saved(backup) BY <1>2, <1>4 DEF Legible
  <2>2. primary' \in Banks /\ Legible(primary') /\ (Valid(primary') => primary' = backup)
    <3>1. CASE primary' \in HalfErased(primary) BY <3>1, <1>2, HalfErasedIs DEF Legible
    <3>2. CASE primary' \in HalfCopied(backup) BY <3>2, <2>1, HalfCopiedIs
    <3> QED BY <3>1, <3>2, <1>4
  <2>3. paired => Found(primary', backup) BY <2>2, <1>2, <1>4 DEF Found
  <2> QED BY <2>2, <2>3, <1>1, <1>2, <1>4, OffStep
<1> QED BY <1>3, <1>4 DEF CrashRestore
-----------------------------------------------------------------------------
(* What a boot leaves: a closed mirror, told in the two banks. *)
LEMMA LoadStep ==
  ASSUME IInv, pc = "boot", NEW log, Closed(log), Loaded(log, "loaded"), UNCHANGED <<outcomes, paired>>,
         primary' \in Banks, Shaped(primary'), Legible(primary'),
         backup' \in Banks, Shaped(backup'), Legible(backup'),
         \/ primary' = Erased /\ backup' = Erased /\ log = DefaultMirror
         \/ primary' = BankOf(log),
         paired => MapOf(log) \in outcomes
  PROVE  IInv'
<1>1. /\ mirror' = log /\ env' = MapOf(log) /\ pc' = "loaded"
      /\ UNCHANGED <<erase, list, adrift, lost, slipped>>
  BY DEF Loaded
<1>2. ~erase /\ list = <<>> BY DEF IInv, Flows
<1>3. log \in Seq(Strings) /\ Len(log) <= Slots /\ Unique(log) BY ClosedIs, KvpfsAssumption
<1>4. MapOf(log) \in Contents BY <1>3, Logs, MapType
<1>5. Typed' BY <1>1, <1>3, <1>4 DEF IInv, Typed
<1>6. Homes' BY <1>1, <1>2, <1>3, GetMirror DEF Homes
<1>7. Flows' BY <1>1, <1>2 DEF Flows
<1>8. BanksLegible' BY <1>1 DEF BanksLegible, Legible
<1>9. Told'
  <2>1. ASSUME NEW k \in Keys PROVE Get(log, <<>>, k) = MapOf(log)[k] BY <1>3, GetMirror
  <2> QED BY <2>1, <1>1, <1>2 DEF Told, GetEnv, Get, AsSet
<1>10. Writable' BY <1>1, FitsSelf DEF Writable
<1>11. Durable' BY <1>1 DEF Durable, Blank
<1>12. Findable' BY <1>1 DEF Findable
<1> QED BY <1>5, <1>6, <1>7, <1>8, <1>9, <1>10, <1>11, <1>12 DEF IInv

(* Both banks are valid, or the primary one only. *)
LEMMA LoadPrimaryStep ==
  ASSUME IInv, LoadPrimary \/ RestoreBackup
  PROVE  IInv'
<1>1. /\ pc = "boot" /\ Valid(primary) /\ Loaded(Load(primary), "loaded")
      /\ primary' = primary /\ UNCHANGED <<outcomes, paired>>
      /\ \/ backup' = backup /\ Valid(backup)
         \/ backup' = primary
  BY DEF LoadPrimary, RestoreBackup, flash
<1>2. Legible(primary) /\ Legible(backup) /\ (paired => Found(primary, backup))
  BY <1>1 DEF IInv, BanksLegible, Findable
<1>3. Saved(primary) /\ Saved(backup') BY <1>1, <1>2 DEF Legible
<1>4. /\ primary \in Banks /\ Shaped(primary)
      /\ Closed(Load(primary)) /\ primary = BankOf(Load(primary)) /\ MapOf(Load(primary)) = MapOf(primary)
      /\ backup' \in Banks /\ Shaped(backup')
  BY <1>3, SavedBank
<1>5. Legible(primary') /\ Legible(backup') BY <1>1, <1>3 DEF Legible
<1>6. paired => MapOf(Load(primary)) \in outcomes BY <1>1, <1>2, <1>4 DEF Found
<1> QED BY <1>1, <1>4, <1>5, <1>6, LoadStep

(* Only the backup bank is valid. *)
LEMMA RestorePrimaryStep ==
  ASSUME IInv, RestorePrimary
  PROVE  IInv'
<1>1. /\ pc = "boot" /\ ~Valid(primary) /\ Valid(backup) /\ Loaded(Load(backup), "loaded")
      /\ primary' = backup /\ backup' = backup /\ UNCHANGED <<outcomes, paired>>
  BY DEF RestorePrimary
<1>2. Legible(backup) /\ (paired => Found(primary, backup))
  BY <1>1 DEF IInv, BanksLegible, Findable
<1>3. Saved(backup) BY <1>1, <1>2 DEF Legible
<1>4. /\ backup \in Banks /\ Shaped(backup)
      /\ Closed(Load(backup)) /\ backup = BankOf(Load(backup)) /\ MapOf(Load(backup)) = MapOf(backup)
  BY <1>3, SavedBank
<1>5. Legible(primary') /\ Legible(backup') BY <1>1, <1>3 DEF Legible
<1>6. paired => MapOf(Load(backup)) \in outcomes BY <1>1, <1>2, <1>4 DEF Found
<1> QED BY <1>1, <1>4, <1>5, <1>6, LoadStep

(* No bank is valid: the default is set up, and both are erased. *)
LEMMA RestoreDefaultStep ==
  ASSUME IInv, RestoreDefault
  PROVE  IInv'
<1>1. /\ pc = "boot" /\ ~Valid(primary) /\ ~Valid(backup) /\ Loaded(DefaultMirror, "loaded")
      /\ primary' = Erased /\ backup' = Erased /\ UNCHANGED <<outcomes, paired>>
  BY DEF RestoreDefault
<1>2. paired => Found(primary, backup) BY <1>1 DEF IInv, Findable
<1>3. Closed(DefaultMirror) /\ MapOf(DefaultMirror) = Nothing BY DefaultIs
<1>4. Erased \in Banks /\ Shaped(Erased) /\ Legible(Erased) BY ErasedBank DEF Legible
<1>5. paired => MapOf(DefaultMirror) \in outcomes BY <1>1, <1>2, <1>3 DEF Found
<1> QED BY <1>1, <1>3, <1>4, <1>5, LoadStep

(* The application goes on. *)
LEMMA BootDoneStep ==
  ASSUME IInv, BootDone
  PROVE  IInv'
<1>1. /\ pc = "loaded" /\ pc' = "up" /\ outcomes' = {MapOf(mirror)}
      /\ UNCHANGED <<mirror, erase, list, adrift, lost, primary, backup, env, slipped>>
      /\ paired' = TRUE
  BY DEF BootDone, ram, flash
<1>2. Closed(mirror) /\ ((Blank /\ mirror = DefaultMirror) \/ primary = BankOf(mirror))
  BY <1>1 DEF IInv, Flows, Durable
<1>3. MapOf(mirror) \in Contents BY State, MapType
<1>4. Typed' BY <1>1, <1>3 DEF IInv, Typed
<1>5. Homes' BY <1>1 DEF IInv, Homes
<1>6. Flows' BY <1>1 DEF Flows
<1>7. BanksLegible' BY <1>1 DEF IInv, BanksLegible, Legible
<1>8. Told' BY <1>1 DEF IInv, Told, GetEnv
<1>9. Writable' BY <1>1 DEF IInv, Writable
<1>10. Durable'
  <2>1. CASE Blank /\ mirror = DefaultMirror BY <2>1, <1>1, DefaultIs DEF Durable, Blank
  <2>2. CASE primary = BankOf(mirror)
    <3>1. Saved(primary) /\ MapOf(primary) = MapOf(mirror) BY <2>2, <1>2, ClosedBank
    <3> QED BY <3>1, <1>1 DEF Durable
  <2> QED BY <2>1, <2>2, <1>2
<1>11. Findable' BY <1>1 DEF Findable
<1> QED BY <1>4, <1>5, <1>6, <1>7, <1>8, <1>9, <1>10, <1>11 DEF IInv

(* The wake from stateful sleep: the list is gone. *)
LEMMA StatefulWakeStep ==
  ASSUME IInv, StatefulWake
  PROVE  IInv'
<1>1. /\ pc = "up" /\ list' = <<>> /\ adrift' = FALSE /\ lost' = 0 /\ slipped' = FALSE
      /\ env' = IF list = <<>> /\ ~slipped THEN env ELSE MapOf(mirror)
      /\ UNCHANGED <<mirror, erase, flash, pc, outcomes, paired>>
  BY DEF StatefulWake
<1>2. <<>> \in Seq(Entries) /\ 0 \in 0..MaxLost BY KvpfsAssumption
<1>3. MapOf(mirror) \in Contents BY State, MapType
<1>4. Typed' BY <1>1, <1>2, <1>3 DEF IInv, Typed, flash
<1>5. Homes' BY <1>1, State, GetMirror DEF Homes
<1>6. Told'
  <2>1. ASSUME NEW k \in Keys PROVE AsSet(k, Get(mirror, <<>>, k), env'[k])
    <3>1. CASE list = <<>> /\ ~slipped BY <3>1, <1>1, State DEF IInv, Told
    <3>2. CASE ~(list = <<>> /\ ~slipped) BY <3>2, <1>1, State, GetMirror DEF AsSet
    <3> QED BY <3>1, <3>2
  <2> QED BY <2>1, <1>1 DEF Told, GetEnv, Get
<1>7. \A i \in 1..Len(mirror) : mirror'[i] \in {mirror[i], Zero} BY <1>1
<1>8. Len(mirror) \in Nat BY State
<1> QED BY <1>1, <1>4, <1>5, <1>6, <1>7, <1>8, RamStep
-----------------------------------------------------------------------------
(* Every step preserves the inductive invariant. *)
LEMMA NextIInv == IInv /\ [Next]_vars => IInv'
<1> SUFFICES ASSUME IInv, [Next]_vars PROVE IInv' OBVIOUS
<1>1. ASSUME NEW k \in Keys, UnsetEnv(k) PROVE IInv' BY <1>1, UnsetEnvStep
<1>2. ASSUME NEW k \in Keys, NEW v \in Values, SetEnv(k, v) PROVE IInv' BY <1>2, SetEnvStep
<1>3. CASE SaveBegin BY <1>3, SaveBeginStep
<1>4. CASE WritePrimary BY <1>4, WritePrimaryStep
<1>5. CASE WriteBackup BY <1>5, WriteBackupStep
<1>6. CASE SaveEnvToGpm BY <1>6, SaveEnvToGpmStep
<1>7. CASE StatefulWake BY <1>7, StatefulWakeStep
<1>8. CASE CrashIdle BY <1>8, CrashIdleStep
<1>9. CASE CrashPrimary BY <1>9, CrashPrimaryStep
<1>10. CASE CrashBackup BY <1>10, CrashBackupStep
<1>11. CASE CrashRestore BY <1>11, CrashRestoreStep
<1>12. CASE LoadPrimary \/ RestoreBackup BY <1>12, LoadPrimaryStep
<1>13. CASE RestorePrimary BY <1>13, RestorePrimaryStep
<1>14. CASE RestoreDefault BY <1>14, RestoreDefaultStep
<1>15. CASE BootDone BY <1>15, BootDoneStep
<1>16. CASE UNCHANGED vars
  <2>1. UNCHANGED <<mirror, erase, list, adrift, lost, primary, backup, pc, env, slipped, outcomes, paired>>
    BY <1>16 DEF vars, ram, flash, history
  <2>2. Typed' BY <2>1 DEF IInv, Typed
  <2>3. Homes' BY <2>1 DEF IInv, Homes
  <2>4. Flows' BY <2>1 DEF IInv, Flows
  <2>5. BanksLegible' BY <2>1 DEF IInv, BanksLegible, Legible
  <2>6. Told' BY <2>1 DEF IInv, Told, GetEnv
  <2>7. Writable' BY <2>1 DEF IInv, Writable
  <2>8. Durable' BY <2>1 DEF IInv, Durable, Blank
  <2>9. Findable' BY <2>1 DEF IInv, Findable, Found
  <2> QED BY <2>2, <2>3, <2>4, <2>5, <2>6, <2>7, <2>8, <2>9 DEF IInv
<1> QED
  BY <1>1, <1>2, <1>3, <1>4, <1>5, <1>6, <1>7, <1>8, <1>9, <1>10, <1>11, <1>12, <1>13, <1>14, <1>15, <1>16
  DEF Next, Save, Crash, Boot

(* The inductive invariant behind the theorems below: it holds initially,  *)
(* and set_env, del_env, save_env, a loss of power and a boot keep it.     *)
THEOREM Invariant == Spec => []IInv
<1>1. Init => IInv BY InitIInv
<1>2. IInv /\ [Next]_vars => IInv' BY NextIInv
<1> QED BY <1>1, <1>2, PTL DEF Spec

(* The keys of a log without a key twice: at most one string each. *)
LEMMA LiveOnce ==
  ASSUME NEW log, Unique(log), NEW k
  PROVE  Cardinality(LiveIn(log, k)) = IF HasKey(log, k) THEN 1 ELSE 0
<1>1. CASE ~HasKey(log, k) BY <1>1, FS_EmptySet DEF HasKey
<1>2. CASE HasKey(log, k)
  <2>1. PICK i : i \in LiveIn(log, k) BY <1>2 DEF HasKey
  <2>2. LiveIn(log, k) = {i} BY <2>1 DEF LiveIn, Unique
  <2> QED BY <2>2, <1>2, FS_Singleton
<1> QED BY <1>1, <1>2

(* A key has one value: it stands at most once in the mirror and the list  *)
(* together, whatever was set, deleted, saved, compacted and loaded, and   *)
(* the mirror never outgrows a bank (kvpfs.c:138-140, 261-272).            *)
THEOREM KeyHasOneHome == Spec => []OneHome
<1>1. ASSUME IInv PROVE OneHome
  <2>1. Typed /\ Homes BY <1>1 DEF IInv
  <2>2. \A i \in DOMAIN mirror : IsEntry(mirror[i]) \/ IsCrc(mirror[i]) \/ mirror[i] = Zero
    <3> TAKE i \in DOMAIN mirror
    <3>1. mirror \in Seq(Strings) BY <2>1 DEF Typed
    <3>2. mirror[i] \in Strings /\ mirror[i] \in Cells BY <3>1, Logs
    <3>3. mirror[i] \in Entries \/ mirror[i] \in Sums \/ mirror[i] = Zero BY <3>2 DEF Strings
    <3> QED BY <3>2, <3>3, CellIs
  <2>3. TypeOK BY <2>1, <2>2 DEF TypeOK, Typed
  <2>4. ASSUME NEW k \in Keys
        PROVE  Cardinality(LiveIn(mirror, k)) + Cardinality(LiveIn(list, k)) <= 1
    <3>1. Unique(mirror) /\ Unique(list) /\ ~(HasKey(mirror, k) /\ HasKey(list, k)) BY <2>1 DEF Homes
    <3> QED BY <3>1, LiveOnce
  <2> QED BY <2>3, <2>4 DEF OneHome
<1> QED BY <1>1, Invariant, PTL

(* get_env returns what set_env was last called with, through saves,       *)
(* compactions and stateful sleep, as long as no node was linked behind a  *)
(* freed one (kvpfs_api.h:31-33); a key that begins with CRC_KEYNAME may   *)
(* be gone, but has no other value (kvpfs.c:107).                          *)
THEOREM GetIsWhatWasSet == Spec => []GetIsSetUnlessSlipped
<1>1. ASSUME IInv PROVE GetIsSetUnlessSlipped
  BY <1>1 DEF IInv, Told, GetIsSetUnlessSlipped
<1> QED BY <1>1, Invariant, PTL

(* When save_env has returned, the primary bank holds what was saved and   *)
(* will be found valid, compacted or not (flash_mirror.c:328-352).         *)
THEOREM SavedIsDurable == Spec => []SaveIsDurable
<1>1. ASSUME IInv PROVE SaveIsDurable
  <2> SUFFICES ASSUME pc = "up", primary # Erased PROVE Valid(primary) /\ MapOf(primary) \in outcomes
    BY DEF SaveIsDurable
  <2>1. Saved(primary) /\ MapOf(primary) \in outcomes BY <1>1 DEF IInv, Durable, Blank
  <2> QED BY <2>1, SavedBank
<1> QED BY <1>1, Invariant, PTL

(* After a loss of power at any point of a save or of a restoration, the   *)
(* boot finds what was saved last or what was being saved, if the two      *)
(* banks were equal when the save began (flash_mirror.c:281-311, 340-350). *)
THEOREM BootRecovers == Spec => []Recovers
<1>1. ASSUME IInv PROVE Recovers
  BY <1>1 DEF IInv, Findable, Recovers
<1> QED BY <1>1, Invariant, PTL
=============================================================================
