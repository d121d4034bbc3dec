------------------------------- MODULE BlockTbl -------------------------------
(***************************************************************************)
(* Calls that wait for the modem (altcom/gw/apicmdgw.c).  A caller takes a *)
(* transaction id, enters itself in the wait table, sends its command and  *)
(* sleeps until the receive task finds its entry, its timeout expires or   *)
(* apicmdgw_fin releases it.                                               *)
(*                                                                         *)
(* The table is under g_blkinfotbl_mtx and each entry under its own        *)
(* waitcondmtx; apicmdgw_writetable and apicmdgw_relcondwaitall hold both, *)
(* so each is one step.  The steps of a caller are those between its locks *)
(* and the places where it reads shared state without one:                 *)
(*   "cmd" (buffer and id allocated), "add", "send", "check", "wait",      *)
(*   "result" (read isinit and the result), "remove", "idle".              *)
(***************************************************************************)
EXTENDS Naturals, FiniteSets, Sequences, SequencesExt

CONSTANTS Clients,    (* the tasks that call apicmdgw_send                 *)
          Commands,   (* command ids; an entry waits for the response to it *)
          EventId,    (* the id of an unsolicited message                  *)
          MaxId,      (* the largest transaction id, 2^16 - 1 in the code  *)
          MaxCalls,   (* bound: calls in a behaviour                       *)
          MaxFins,    (* bound: apicmdgw_fin calls in a behaviour          *)
          MaxInits    (* bound: apicmdgw_init calls in a behaviour         *)

ASSUME BlockTblAssumption ==
  /\ IsFiniteSet(Clients)
  /\ EventId \notin Commands
  /\ MaxId \in Nat \ {0} /\ MaxCalls \in Nat
  /\ MaxFins \in Nat /\ MaxInits \in Nat

VARIABLES isinit,    (* g_isinit                                           *)
          recvRun,   (* the receive task: "run", "abort" (told to), "end"  *)
          fin,       (* where apicmdgw_fin is                              *)
          inits,     (* how often apicmdgw_init has run                    *)
          table,     (* g_blkinfotbl, the newest entry first               *)
          pc, call,  (* each caller's place and its command                *)
          ready, result, token,  (* its entry: isBlkReady, result, signal  *)
          got,       (* the command whose response is in recvbuff, or 0    *)
          ret,       (* what the caller's last call returned               *)
          transid,   (* the static counter of apicmdgw_createtransid       *)
          calls,     (* how many commands have been made                   *)
          modem,     (* the commands the modem may still answer            *)
          strays,    (* the commands whose response went to the dispatcher *)
          gone       (* the callers that will never run again              *)

gwVars == <<isinit, recvRun, fin, inits, gone>>
entryVars == <<ready, result, token, got>>
callVars == <<pc, call, ret>>
vars == <<gwVars, table, entryVars, callVars, transid, calls, modem, strays>>

NoCall == [cmd |-> EventId, id |-> 0, seq |-> 0, epoch |-> 0,
           timed |-> FALSE]
Goto(c, p) == pc' = [pc EXCEPT ![c] = p]

Init ==
  /\ isinit = TRUE /\ recvRun = "run" /\ fin = "off" /\ inits = 1
  /\ table = << >>
  /\ pc = [c \in Clients |-> "idle"]
  /\ call = [c \in Clients |-> NoCall]
  /\ ret = [c \in Clients |-> "OK"]
  /\ ready = [c \in Clients |-> FALSE]
  /\ result = [c \in Clients |-> 0]
  /\ token = [c \in Clients |-> FALSE]
  /\ got = [c \in Clients |-> 0]
  /\ transid = 0 /\ calls = 0 /\ modem = {} /\ strays = {} /\ gone = {}
-----------------------------------------------------------------------------
(* apicmdgw_createtransid: the 16-bit counter wraps and skips 0.           *)
NextId(i) == LET n == (i + 1) % (MaxId + 1) IN IF n = 0 THEN 1 ELSE n

(* Assumed: the 2^16 - 1 ids do not come round during one call, and the    *)
(* modem answers a command before its id is used again, or never.          *)
InUse(id) == \E c \in Clients : pc[c] # "idle" /\ call[c].id = id

(* apicmdgw_cmd_allocbuff, which makes the header under the HAL's lock. *)
AllocCmd(c, cmd, timed) ==
  /\ pc[c] = "idle"
  /\ isinit
  /\ calls < MaxCalls
  /\ ~ InUse(NextId(transid))
  /\ transid' = NextId(transid)
  /\ modem' = {m \in modem : m.id # NextId(transid)}
  /\ calls' = calls + 1
  /\ call' = [call EXCEPT ![c] = [cmd |-> cmd, id |-> NextId(transid),
                                  seq |-> calls + 1, epoch |-> inits,
                                  timed |-> timed]]
  /\ Goto(c, "cmd")
  /\ UNCHANGED <<gwVars, table, entryVars, ret, strays>>

(* The check of g_isinit at the head of __apicmdgw_send. *)
CheckInit(c) ==
  /\ pc[c] = "cmd"
  /\ IF isinit THEN Goto(c, "add") /\ UNCHANGED ret
               ELSE Goto(c, "idle") /\ ret' = [ret EXCEPT ![c] = "EPERM"]
  /\ UNCHANGED <<gwVars, table, entryVars, call, transid, calls, modem, strays>>

(* apicmdgw_addtable, with the fresh (zeroed) entry. *)
AddTable(c) ==
  /\ pc[c] = "add"
  /\ Goto(c, "send")
  /\ table' = <<c>> \o table
  /\ ready' = [ready EXCEPT ![c] = FALSE]
  /\ result' = [result EXCEPT ![c] = 0]
  /\ token' = [token EXCEPT ![c] = FALSE]
  /\ got' = [got EXCEPT ![c] = 0]
  /\ UNCHANGED <<gwVars, call, ret, transid, calls, modem, strays>>

(* hal_if->send: the command reaches the modem, or an error is returned. *)
HalSend(c) ==
  /\ pc[c] = "send"
  /\ fin # "done"
  /\ \/ /\ modem' = modem \cup {[cmd |-> call[c].cmd, id |-> call[c].id,
                                 seq |-> call[c].seq]}
        /\ Goto(c, "check")
        /\ UNCHANGED ret
     \/ /\ ret' = [ret EXCEPT ![c] = "EIO"]
        /\ Goto(c, "remove")
        /\ UNCHANGED modem
  /\ UNCHANGED <<gwVars, table, entryVars, call, transid, calls, strays>>

(* apicmdgw_checktable: the loop condition, the wake-up and the timeout. *)
CheckTable(c) ==
  /\ pc[c] = "check"
  /\ Goto(c, IF ready[c] THEN "result" ELSE "wait")
  /\ UNCHANGED <<gwVars, table, entryVars, call, ret, transid, calls, modem,
                 strays>>

Wake(c) ==
  /\ pc[c] = "wait"
  /\ token[c]
  /\ token' = [token EXCEPT ![c] = FALSE]
  /\ Goto(c, "check")
  /\ UNCHANGED <<gwVars, table, ready, result, got, call, ret, transid, calls,
                 modem, strays>>

(* Mutant: the entry is left behind. *)
TimeOutLeavesEntry(c) ==
  /\ pc[c] = "wait" /\ call[c].timed /\ ~ token[c]
  /\ ret' = [ret EXCEPT ![c] = "ETIMEDOUT"]
  /\ Goto(c, "idle")
  /\ UNCHANGED <<gwVars, table, entryVars, call, transid, calls, modem, strays>>

TimeOut(c) ==
  /\ pc[c] = "wait"
  /\ call[c].timed
  /\ ~ token[c]
  /\ ret' = [ret EXCEPT ![c] = "ETIMEDOUT"]
  /\ Goto(c, "remove")
  /\ UNCHANGED <<gwVars, table, entryVars, call, transid, calls, modem, strays>>

(* The entry's result and g_isinit are read after apicmdgw_checktable. *)
ReadResult(c) ==
  /\ pc[c] = "result"
  /\ ret' = [ret EXCEPT ![c] = IF ~ isinit THEN "ECONNABORTED"
                               ELSE IF result[c] # 0 THEN "ENOSPC" ELSE "OK"]
  /\ Goto(c, "remove")
  /\ UNCHANGED <<gwVars, table, entryVars, call, transid, calls, modem, strays>>

(* apicmdgw_remtable, and the return of __apicmdgw_send. *)
RemTable(c) ==
  /\ pc[c] = "remove"
  /\ \E i \in DOMAIN table : table[i] = c /\ table' = RemoveAt(table, i)
  /\ Goto(c, "idle")
  /\ UNCHANGED <<gwVars, entryVars, call, ret, transid, calls, modem, strays>>
-----------------------------------------------------------------------------
(* apicmdgw_writetable: the first entry of the list with the message's id  *)
(* and command.  Mutant: the command is not compared.                      *)
MatchesById(c, cmd, id) == call[c].id = id
Matches(c, cmd, id) == call[c].id = id /\ call[c].cmd = cmd

FirstMatch(cmd, id) ==
  LET found == SelectInSeq(table, LAMBDA c : Matches(c, cmd, id))
  IN IF found = 0 THEN {} ELSE {table[found]}

(* The entry gets the data, or only an error if the data does not fit.     *)
(* Mutant: nobody is signalled.                                            *)
WriteEntryMute(c, seq, fits) ==
  /\ ready' = [ready EXCEPT ![c] = @ \/ fits]
  /\ result' = [result EXCEPT ![c] = IF fits THEN 0 ELSE 1]
  /\ got' = [got EXCEPT ![c] = IF fits THEN seq ELSE @]
  /\ UNCHANGED token

WriteEntry(c, seq, fits) ==
  /\ ready' = [ready EXCEPT ![c] = @ \/ fits]
  /\ result' = [result EXCEPT ![c] = IF fits THEN 0 ELSE 1]
  /\ got' = [got EXCEPT ![c] = IF fits THEN seq ELSE @]
  /\ token' = [token EXCEPT ![c] = TRUE]

(* What the receive task does with a message it has read: its entry is     *)
(* written, or the event dispatcher gets it.                               *)
WriteTable(cmd, id, seq, fits) ==
  IF FirstMatch(cmd, id) = {}
  THEN strays' = strays \cup {seq} /\ UNCHANGED entryVars
  ELSE /\ \E c \in FirstMatch(cmd, id) : WriteEntry(c, seq, fits)
       /\ UNCHANGED strays

(* A response arrives, in any order, possibly after its caller gave up. *)
Answer(m, fits) ==
  /\ recvRun # "end"
  /\ m \in modem
  /\ modem' = modem \ {m}
  /\ WriteTable(m.cmd, m.id, m.seq, fits)
  /\ UNCHANGED <<gwVars, table, callVars, transid, calls>>

(* The modem numbers its own messages as it likes. *)
Event(id) ==
  /\ recvRun # "end"
  /\ WriteTable(EventId, id, 0, TRUE)
  /\ UNCHANGED <<gwVars, table, callVars, transid, calls, modem>>

(* The receive task sees HAL_ABORT_TERMINATE and ends. *)
RecvEnd ==
  /\ recvRun = "abort"
  /\ recvRun' = "end"
  /\ UNCHANGED <<isinit, fin, inits, gone, table, entryVars, callVars, transid, calls,
                 modem, strays>>
-----------------------------------------------------------------------------
(* apicmdgw_fin, and apicmdgw_init after it. *)
FinStep(from, to) == fin = from /\ fin' = to

FinBegin ==
  /\ FinStep("off", "abort")
  /\ isinit
  /\ inits <= MaxFins
  /\ isinit' = FALSE
  /\ UNCHANGED <<recvRun, inits, gone, table, entryVars, callVars, transid, calls,
                 modem, strays>>

FinAbort ==
  /\ FinStep("abort", "join")
  /\ recvRun' = "abort"
  /\ UNCHANGED <<isinit, inits, gone, table, entryVars, callVars, transid, calls,
                 modem, strays>>

FinJoin ==
  /\ FinStep("join", "release")
  /\ recvRun = "end"
  /\ UNCHANGED <<isinit, recvRun, inits, gone, table, entryVars, callVars, transid,
                 calls, modem, strays>>

(* apicmdgw_relcondwaitall. *)
FinRelease ==
  /\ FinStep("release", "delete")
  /\ ready' = [c \in Clients |-> ready[c] \/ Contains(table, c)]
  /\ token' = [c \in Clients |-> token[c] \/ Contains(table, c)]
  /\ UNCHANGED <<isinit, recvRun, inits, gone, table, result, got, callVars, transid,
                 calls, modem, strays>>

(* g_blkinfotbl_mtx is deleted and g_hal_if forgotten.  Released callers   *)
(* still take that mutex in apicmdgw_remtable.                             *)
FinDelete ==
  /\ FinStep("delete", "done")
  /\ UNCHANGED <<isinit, recvRun, inits, gone, table, entryVars, callVars, transid,
                 calls, modem, strays>>

Reinit ==
  /\ FinStep("done", "off")
  /\ inits < MaxInits
  /\ inits' = inits + 1
  /\ isinit' = TRUE
  /\ recvRun' = "run"
  /\ UNCHANGED <<gone, table, entryVars, callVars, transid, calls, modem, strays>>

(* What a caller meets that has outlived them: a deleted mutex, which it   *)
(* may or may not get, and a null pointer.                                 *)
Perish(c) ==
  /\ fin = "done"
  /\ pc[c] \in {"add", "send", "remove"}
  /\ gone' = gone \cup {c}
  /\ UNCHANGED <<isinit, recvRun, fin, inits, table, entryVars, callVars,
                 transid, calls, modem, strays>>
-----------------------------------------------------------------------------
InCall(c) ==
  /\ c \notin gone
  /\ \/ CheckInit(c) \/ AddTable(c) \/ HalSend(c) \/ CheckTable(c)
     \/ Wake(c) \/ TimeOut(c) \/ ReadResult(c) \/ RemTable(c)
     \/ Perish(c)

ClientStep(c) ==
  \/ \E cmd \in Commands, timed \in BOOLEAN : AllocCmd(c, cmd, timed)
  \/ InCall(c)

RecvStep ==
  \/ \E m \in modem, fits \in BOOLEAN : Answer(m, fits)
  \/ \E id \in 1..MaxId : Event(id)
  \/ RecvEnd

FinNext == FinBegin \/ FinAbort \/ FinJoin \/ FinRelease \/ FinDelete \/ Reinit

Next == (\E c \in Clients : ClientStep(c)) \/ RecvStep \/ FinNext

Spec == Init /\ [][Next]_vars
-----------------------------------------------------------------------------
Places == {"idle", "cmd", "add", "send", "check", "wait", "result", "remove"}
Returns == {"OK", "EPERM", "EIO", "ETIMEDOUT", "ECONNABORTED", "ENOSPC"}

TypeOK ==
  /\ isinit \in BOOLEAN
  /\ recvRun \in {"run", "abort", "end"}
  /\ fin \in {"off", "abort", "join", "release", "delete", "done"}
  /\ inits \in Nat
  /\ table \in Seq(Clients)
  /\ pc \in [Clients -> Places]
  /\ call \in [Clients -> [cmd : Commands \cup {EventId}, id : 0..MaxId,
                           seq : Nat, epoch : Nat,
                           timed : BOOLEAN]]
  /\ ready \in [Clients -> BOOLEAN]
  /\ result \in [Clients -> {0, 1}]
  /\ token \in [Clients -> BOOLEAN]
  /\ got \in [Clients -> Nat]
  /\ ret \in [Clients -> Returns]
  /\ transid \in 0..MaxId
  /\ calls \in Nat
  /\ modem \subseteq [cmd : Commands, id : 1..MaxId, seq : Nat]
  /\ strays \subseteq Nat
  /\ gone \subseteq Clients

(* The receive task writes through an entry into buffers that belong to    *)
(* the caller's stack and heap: an entry is in the table, once, exactly    *)
(* while its caller is between apicmdgw_addtable and apicmdgw_remtable.    *)
InTable == {"send", "check", "wait", "result", "remove"}
TableIsLive ==
  /\ TypeOK
  /\ ToSet(table) = {c \in Clients : pc[c] \in InTable}
  /\ \A i, j \in DOMAIN table : table[i] = table[j] => i = j

(* A call that succeeds has in its buffer the response to the command it   *)
(* sent: neither an event with the same number, nor the late response to a *)
(* command that timed out, nor another caller's.  A call that outlives its *)
(* initialization is excepted: released by apicmdgw_fin, it may read       *)
(* g_isinit again (line 933) only after the next apicmdgw_init, and then   *)
(* succeeds without a response.                                            *)
AnswerIsOwn ==
  \A c \in Clients :
    pc[c] = "remove" /\ ret[c] = "OK" /\ call[c].epoch = inits
      => got[c] = call[c].seq

(* The response to a command reaches the caller that waits for it.  It is  *)
(* never taken for an event, since the entry precedes the command; and a   *)
(* caller whose entry is ready never sleeps without a signal, since the    *)
(* lock of the entry covers the test of apicmdgw_checktable, the writer    *)
(* and apicmdgw_relcondwaitall (apicmdgw.c:461-475, 498-512, 528-544).     *)
NoLostAnswer ==
  \A c \in Clients :
    /\ pc[c] = "wait" /\ ready[c] => token[c]
    /\ pc[c] \in {"check", "wait"} => call[c].seq \notin strays
=============================================================================
