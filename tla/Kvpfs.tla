--------------------------------- MODULE Kvpfs ---------------------------------
(***************************************************************************)
(* The key-value store in serial flash (middleware/kvpfs).  The mirror is  *)
(* a copy in RAM of what a flash bank holds: a log of "key=value" strings, *)
(* in which a deleted string is overwritten with zeros, so that it can be  *)
(* written over the old contents of a bank without erasing it.  New values *)
(* wait in a list until save_env appends them to the mirror and writes the *)
(* mirror to the primary bank and then to the backup bank.                 *)
(*                                                                         *)
(* A string, its key and value, is one slot here, and so is the CRC, which *)
(* stands for the very contents it is computed from (no two contents have  *)
(* the same).  ENV_MAGIC is one of the strings and not told apart.  Every  *)
(* call runs under kvpfs_mtx: what comes between two steps is the loss of  *)
(* power, which leaves any part of a flash operation done.  Memory for the *)
(* list is taken not to run out.                                           *)
(***************************************************************************)
EXTENDS Naturals, Sequences, SequencesExt, FiniteSets

CONSTANTS Keys, Values,
          CrcKeys,     (* the keys that begin with CRC_KEYNAME, such as    *)
                       (* CRC2; set_env refuses CRC_KEYNAME only           *)
          NoValue,     (* what get_env finds for a key that is not there   *)
          Slots,       (* ENV_SIZE, in slots, two sectors                  *)
          MaxLost,     (* bound: nodes the list loses                      *)
          MaxCrashes   (* bound: losses of power                           *)

ASSUME KvpfsAssumption ==
  /\ NoValue \notin Values
  /\ CrcKeys \subseteq Keys
  /\ Slots \in Nat /\ Slots > 3
  /\ MaxLost \in Nat /\ MaxCrashes \in Nat

Free == <<"free">>   (* erased flash                                       *)
Zero == <<"zero">>   (* a deleted string                                   *)
Bad  == <<"bad">>    (* a half written string, or two written as one       *)
Entry(k, v) == <<"entry", k, v>>
Entries == {Entry(k, v) : k \in Keys, v \in Values}
Crc(log) == <<"crc", log>>
IsEntry(s) == s[1] = "entry"
IsCrc(s) == s[1] = "crc"

VARIABLES mirror,    (* flash_mirror up to used_byte                       *)
          erase,     (* do_erase                                           *)
          list,      (* the list from head on                              *)
          adrift,    (* cur is not in the list: its node was freed         *)
          lost,      (* nodes counted in num_of_ele that are not in list   *)
          primary, backup,
          pc,        (* what is going on with the flash                    *)
          crashes,
          env,       (* history: each key's value, by the calls made       *)
          slipped,   (* history: a node has been linked behind a freed one *)
          outcomes,  (* history: what the next boot may find               *)
          paired     (* history: the banks were equal before this save     *)

ram == <<mirror, erase, list, adrift, lost>>
flash == <<primary, backup>>
history == <<env, slipped, outcomes, paired>>
vars == <<ram, flash, pc, crashes, history>>

Erased == [i \in 1..Slots |-> Free]
Contents == [Keys -> Values \cup {NoValue}]
LiveIn(log, k) == {i \in DOMAIN log : IsEntry(log[i]) /\ log[i][2] = k}
HasKey(log, k) == LiveIn(log, k) # {}

(* find_value_mirror, search_ele: the first string with this key. *)
FirstIn(log, k) ==
  CHOOSE i \in LiveIn(log, k) : \A j \in LiveIn(log, k) : i <= j
Lookup(log, k) == IF HasKey(log, k) THEN log[FirstIn(log, k)][3] ELSE NoValue

MapOf(log) == [k \in Keys |-> Lookup(log, k)]

(* get_env looks in the mirror first. *)
GetEnv(k) == IF HasKey(mirror, k) THEN Lookup(mirror, k) ELSE Lookup(list, k)

(* delete_value_mirror.  Mutant: the old value stays. *)
DeletedKeeps(log, k) == log

Deleted(log, k) ==
  [i \in DOMAIN log |-> IF HasKey(log, k) /\ i = FirstIn(log, k) THEN Zero ELSE log[i]]

DefaultMirror == <<Crc(<<>>)>>
Nothing == [k \in Keys |-> NoValue]

Init ==
  /\ mirror = DefaultMirror /\ erase = FALSE
  /\ list = <<>> /\ adrift = FALSE /\ lost = 0
  /\ primary = Erased /\ backup = Erased
  /\ pc = "up" /\ crashes = 0
  /\ env = Nothing /\ slipped = FALSE
  /\ outcomes = {Nothing} /\ paired = TRUE
-----------------------------------------------------------------------------
(* set_env with a value: add_data_list modifies the key's node, or links a *)
(* new one behind cur, which delete_value_list may have freed.             *)
SetEnv(k, v) ==
  LET new == Entry(k, v) IN
  /\ pc = "up"
  /\ mirror' = Deleted(mirror, k)
  /\ env' = [env EXCEPT ![k] = v]
  /\ \/ /\ list = <<>>
        /\ list' = <<new>> /\ adrift' = FALSE /\ UNCHANGED <<lost, slipped>>
     \/ /\ HasKey(list, k)
        /\ list' = [list EXCEPT ![FirstIn(list, k)] = new]
        /\ UNCHANGED <<adrift, lost, slipped>>
     \/ /\ list # <<>> /\ ~HasKey(list, k) /\ ~adrift
        /\ list' = Append(list, new) /\ UNCHANGED <<adrift, lost, slipped>>
     \/ /\ list # <<>> /\ ~HasKey(list, k) /\ adrift
        /\ lost < MaxLost /\ lost' = lost + 1
        /\ slipped' = TRUE
        /\ UNCHANGED <<list, adrift>>
  /\ UNCHANGED <<erase, flash, pc, crashes, outcomes, paired>>

(* set_env without a value. *)
UnsetEnv(k) ==
  /\ pc = "up"
  /\ env' = [env EXCEPT ![k] = NoValue]
  /\ mirror' = Deleted(mirror, k)
  /\ IF ~HasKey(mirror, k) /\ HasKey(list, k)
       THEN /\ list' = RemoveAt(list, FirstIn(list, k))
            /\ adrift' = (adrift \/ (Len(list) > 1 /\ Last(list)[2] = k))
       ELSE UNCHANGED <<list, adrift>>
  /\ UNCHANGED <<erase, lost, flash, pc, crashes, slipped, outcomes, paired>>
-----------------------------------------------------------------------------
(* flush_list_to_mirror: check_flash_space, compact_flash,                 *)
(* save_list_to_flash.  The CRC of the last save is not kept by            *)
(* compact_flash.  Mutant: compact_flash does not ask for an erasure.      *)
Zeros == Cardinality({i \in DOMAIN mirror : mirror[i] = Zero})
Wanted == Len(mirror) + Len(list) + lost + 1
Enough == Wanted < Slots

EnoughIfCompacted == Wanted - Zeros <= Slots

EraseNever == erase

EraseAfter == erase \/ ~Enough

(* The strings that are left, in their order: compact_flash leaves out the *)
(* CRC, with it every string that begins like it.                          *)
Survives(s) == IsEntry(s) /\ s[2] \notin CrcKeys
Kept(log, n) == {i \in 1..n : Survives(log[i])}
Compacted(log) ==
  [n \in 1..Cardinality(Kept(log, Len(log))) |->
     log[CHOOSE i \in Kept(log, Len(log)) : Cardinality(Kept(log, i)) = n]]
Flushed == (IF Enough THEN mirror ELSE Compacted(mirror)) \o list

Flush ==
  /\ Enough \/ EnoughIfCompacted
  /\ list # <<>> \/ lost = 0       \* else it would read an unfilled buffer
  /\ erase' = EraseAfter
  /\ list' = <<>>
  /\ UNCHANGED <<adrift, lost>>

SaveEnvToGpm ==
  /\ pc = "up"
  /\ Flush
  /\ mirror' = Flushed
  /\ UNCHANGED <<flash, pc, crashes, history>>

(* save_env, and in write_to_flash the new CRC; then the flash. *)
WithCrc(log) ==
  LET body == [i \in DOMAIN log |-> IF IsCrc(log[i]) THEN Zero ELSE log[i]]
  IN Append(body, Crc(body))

SaveBegin ==
  /\ pc = "up"
  /\ Flush
  /\ mirror' = WithCrc(Flushed)
  /\ pc' = "primary"
  /\ outcomes' = outcomes \cup {MapOf(mirror')}
  /\ paired' = (primary = backup)
  /\ UNCHANGED <<flash, crashes, env, slipped>>
-----------------------------------------------------------------------------
(* serial_flash_write_buffer can clear bits only (g_sf_do_AND_for_write):  *)
(* two different strings on top of each other are neither.                 *)
And(old, new) ==
  CASE old = Free -> new
    [] new = Free -> old
    [] old = new -> old
    [] Zero \in {old, new} -> Zero
    [] OTHER -> Bad

Image == [i \in 1..Slots |-> IF i <= Len(mirror) THEN mirror[i] ELSE Free]
Written(bank) == [i \in 1..Slots |-> And(bank[i], Image[i])]
Rewritten(bank) == Written(IF erase THEN Erased ELSE bank)

(* What a loss of power leaves of a bank that was being erased, one sector *)
(* after the other, and of one that was being written.                     *)
HalfErased(bank) ==
  {[i \in 1..Slots |-> IF i * 2 <= Slots THEN s ELSE bank[i]] : s \in {Free, Bad}}
    \cup {[i \in 1..Slots |-> IF i * 2 <= Slots THEN Free ELSE s] : s \in {Free, Bad}}

HalfWritten(bank) ==
  {[i \in 1..Slots |->
      CASE i < k -> Written(bank)[i]
        [] i = k /\ torn /\ Written(bank)[i] # bank[i] -> Bad
        [] OTHER -> bank[i]] : k \in 1..Slots + 1, torn \in BOOLEAN}

HalfRewritten(bank, erased) ==
  {bank} \cup (IF erased THEN HalfErased(bank) \cup HalfWritten(Erased)
                         ELSE HalfWritten(bank))

(* write_to_flash: the primary bank, then the backup. *)
WritePrimary ==
  /\ pc = "primary"
  /\ primary' = Rewritten(primary)
  /\ pc' = "backup"
  /\ UNCHANGED <<ram, backup, crashes, history>>

WriteBackup ==
  /\ pc = "backup"
  /\ backup' = Rewritten(backup)
  /\ erase' = FALSE
  /\ pc' = "up"
  /\ outcomes' = {MapOf(mirror)} /\ paired' = TRUE
  /\ UNCHANGED <<mirror, list, adrift, lost, primary, crashes, env, slipped>>

(* The loss of power: all of RAM is gone (env begins anew at the boot). *)
PowerOff ==
  /\ crashes < MaxCrashes
  /\ crashes' = crashes + 1
  /\ pc' = "boot"
  /\ mirror' = <<>> /\ erase' = FALSE
  /\ list' = <<>> /\ adrift' = FALSE /\ lost' = 0
  /\ slipped' = FALSE /\ env' = Nothing
  /\ UNCHANGED <<outcomes, paired>>

CrashIdle == pc = "up" /\ PowerOff /\ UNCHANGED flash

CrashPrimary ==
  /\ pc = "primary"
  /\ primary' \in HalfRewritten(primary, erase)
  /\ UNCHANGED backup
  /\ PowerOff

CrashBackup ==
  /\ pc = "backup"
  /\ backup' \in HalfRewritten(backup, erase)
  /\ UNCHANGED primary
  /\ PowerOff
-----------------------------------------------------------------------------
(* kvpfs_full_init.  validate_env finds the first CRC before the free part *)
(* and compares.  Mutant: it does not compare.                             *)
Crcs(bank) ==
  {i \in 1..Slots : IsCrc(bank[i]) /\ \A j \in 1..i : bank[j] # Free}

ValidUnread(bank) == Crcs(bank) # {}

Valid(bank) ==
  \E p \in Crcs(bank) :
    /\ \A q \in Crcs(bank) : p <= q
    /\ bank[p][2] = SubSeq(bank, 1, p - 1)

(* load_flash_mirror_info: the strings before the free part. *)
Load(bank) == SubSeq(bank, 1, Cardinality({i \in 1..Slots : \A j \in 1..i : bank[j] # Free}))

(* load_flash_content.  The bank that is broken is erased and written with *)
(* the other one's contents; the mirror is already loaded.                 *)
Loaded(log, next) ==
  /\ mirror' = log
  /\ env' = MapOf(log)
  /\ pc' = next
  /\ UNCHANGED <<erase, list, adrift, lost, crashes, slipped>>

LoadPrimary ==
  /\ pc = "boot"
  /\ Valid(primary) /\ Valid(backup)
  /\ Loaded(Load(primary), "loaded")
  /\ UNCHANGED <<flash, outcomes, paired>>

RestoreBackup ==
  /\ pc = "boot"
  /\ Valid(primary) /\ ~Valid(backup)
  /\ Loaded(Load(primary), "loaded")
  /\ backup' = primary
  /\ UNCHANGED <<primary, outcomes, paired>>

RestorePrimary ==
  /\ pc = "boot"
  /\ ~Valid(primary) /\ Valid(backup)
  /\ Loaded(Load(backup), "loaded")
  /\ primary' = backup
  /\ UNCHANGED <<backup, outcomes, paired>>

RestoreDefault ==
  /\ pc = "boot"
  /\ ~Valid(primary) /\ ~Valid(backup)
  /\ Loaded(DefaultMirror, "loaded")
  /\ primary' = Erased /\ backup' = Erased
  /\ UNCHANGED <<outcomes, paired>>

(* Power is lost while a broken bank is being restored: the first strings  *)
(* of the other one are in the erased bank, and the next one may be torn.  *)
HalfCopied(source) ==
  {[i \in 1..Slots |->
      CASE i < k -> source[i]
        [] i = k /\ torn /\ source[i] # Free -> Bad
        [] OTHER -> Free] : k \in 1..Slots, torn \in BOOLEAN}

CrashRestore ==
  /\ pc = "boot"
  /\ \/ /\ Valid(primary) /\ ~Valid(backup)
        /\ backup' \in HalfErased(backup) \cup HalfCopied(primary)
        /\ UNCHANGED primary
     \/ /\ ~Valid(primary) /\ Valid(backup)
        /\ primary' \in HalfErased(primary) \cup HalfCopied(backup)
        /\ UNCHANGED backup
  /\ PowerOff

(* The application goes on, with what it finds. *)
BootDone ==
  /\ pc = "loaded"
  /\ pc' = "up"
  /\ outcomes' = {MapOf(mirror)} /\ paired' = TRUE
  /\ UNCHANGED <<ram, flash, crashes, env, slipped>>

(* kvpfs_stateful_init: the mirror was retained, the list was not. *)
StatefulWake ==
  /\ pc = "up"
  /\ env' = IF list = <<>> /\ ~slipped THEN env ELSE MapOf(mirror)
  /\ list' = <<>> /\ adrift' = FALSE /\ lost' = 0 /\ slipped' = FALSE
  /\ UNCHANGED <<mirror, erase, flash, pc, crashes, outcomes, paired>>
-----------------------------------------------------------------------------
Crash == CrashIdle \/ CrashPrimary \/ CrashBackup \/ CrashRestore
Boot == LoadPrimary \/ RestoreBackup \/ RestorePrimary \/ RestoreDefault \/ BootDone
Save == SaveBegin \/ WritePrimary \/ WriteBackup

Next ==
  \/ \E k \in Keys : UnsetEnv(k) \/ \E v \in Values : SetEnv(k, v)
  \/ Save \/ SaveEnvToGpm \/ StatefulWake \/ Crash \/ Boot

Spec == Init /\ [][Next]_vars
-----------------------------------------------------------------------------
(* The mirror never outgrows a bank: the assertion in save_list_to_flash   *)
(* (kvpfs.c:138-140) and the CRC, which is appended unchecked              *)
(* (flash_mirror.c:150-158), rest on check_flash_space before them.        *)
TypeOK ==
  /\ Len(mirror) <= Slots
  /\ \A i \in DOMAIN mirror : IsEntry(mirror[i]) \/ IsCrc(mirror[i]) \/ mirror[i] = Zero
  /\ erase \in BOOLEAN /\ adrift \in BOOLEAN /\ slipped \in BOOLEAN /\ paired \in BOOLEAN
  /\ list \in Seq(Entries) /\ lost \in 0..MaxLost
  /\ pc \in {"up", "primary", "backup", "boot", "loaded"}
  /\ env \in Contents /\ outcomes \subseteq Contents

(* A key has one value: it stands at most once in the mirror and the list  *)
(* together, whatever was set, deleted, saved, compacted and loaded        *)
(* (kvpfs.c:261-272), or get_env and the next boot would disagree.         *)
OneHome ==
  /\ TypeOK
  /\ \A k \in Keys :
       Cardinality(LiveIn(mirror, k)) + Cardinality(LiveIn(list, k)) <= 1

(* get_env returns what set_env was last called with, "Provide a key which *)
(* not presents in file system will add a data" (kvpfs_api.h:31-33),       *)
(* through saves, compactions and stateful sleep.                          *)
GetIsSet == pc = "up" => \A k \in Keys : GetEnv(k) = env[k]

(* The same, as long as no node was linked behind a freed one              *)
(* (list_data.c:86-88 after 130); a key that begins with CRC_KEYNAME may   *)
(* be gone, by compact_flash (kvpfs.c:107), but has no other value.        *)
AsSet(k, found, value) == found = value \/ (k \in CrcKeys /\ found = NoValue)
GetIsSetUnlessSlipped ==
  ~slipped /\ pc = "up" => \A k \in Keys : AsSet(k, GetEnv(k), env[k])

(* When save_env has returned, the primary bank holds what was saved and   *)
(* will be found valid, compacted or not (flash_mirror.c:328-352).         *)
SaveIsDurable ==
  pc = "up" /\ primary # Erased => Valid(primary) /\ MapOf(primary) \in outcomes

(* After a loss of power at any point of a save or of a restoration, the   *)
(* boot finds what was saved last or what was being saved, if the two      *)
(* banks were equal when the save began (flash_mirror.c:281-311, 340-350). *)
Recovers ==
  pc = "loaded" /\ paired => MapOf(mirror) \in outcomes
=============================================================================
