---------------------------- MODULE LanTransfer ----------------------------
(***************************************************************************)
(* Files sent from one device to another in a local network (xfer-lan):    *)
(* the sender's queue, which sends one file at a time over a connection of *)
(* its own, and the receiver, which serves every connection in a task.     *)
(*                                                                         *)
(* A file is a sequence of chunks; all files have the same name, and a     *)
(* path is the number appended to it and whether it is the ".part".        *)
(* Handshake lines and frames are one item each; encryption, keys and the  *)
(* authentication string are left out.                                     *)
(***************************************************************************)
EXTENDS Integers, Sequences, FiniteSets, FiniteSetsExt

CONSTANTS
    Task,       \* files queued, each a task on either side
    Size,       \* chunks declared in the offer
    Lengths,    \* chunks the sender really reads: the file may have changed
    Nobody,     \* the queue's sender is idle
    Racing,     \* whether two connections may look for a name at once
    MaxTrouble  \* bound: broken connections, crashes and failing disks

LanAssumption ==
    /\ IsFiniteSet(Task) /\ Nobody \notin Task
    /\ Size \in Nat /\ Lengths \subseteq Nat /\ Lengths # {}
    /\ Racing \in BOOLEAN /\ MaxTrouble \in Nat

VARIABLES
    out,        \* LanService.tasks of the sender
    in,         \* LanService.tasks of the receiver
    stop,       \* the `cancelled` sets of both
    tx,         \* sender_loop
    link,       \* the connection of each task
    rx,         \* receive_one of each connection
    disk,       \* the receive directory: path to file
    data,       \* what is in the files
    trouble

lanVars == <<out, in, stop, tx, link, rx, disk, data, trouble>>

Path == [n : 0..Cardinality(Task), part : BOOLEAN]
Final(n) == [n |-> n, part |-> FALSE]
Part(n) == [n |-> n, part |-> TRUE]
Whole(t) == [k \in 1..Size |-> <<t, k>>]
Open == {"waiting", "active"}
NoLink == [up |-> <<>>, down |-> <<>>, cut |-> FALSE]
NoRx == [pc |-> "none", n |-> 0, to |-> 0, total |-> 0, node |-> Nobody]
Over == [NoRx EXCEPT !.pc = "over"]
NoTx == [task |-> Nobody, pc |-> "idle", sent |-> 0, len |-> 0]

LanInit ==
    /\ out = [t \in Task |-> "none"] /\ in = out
    /\ stop = [out |-> {}, in |-> {}]
    /\ tx = NoTx /\ link = [t \in Task |-> NoLink] /\ rx = [t \in Task |-> NoRx]
    /\ disk = [p \in {} |-> Nobody] /\ data = [t \in Task |-> <<>>]
    /\ trouble = 0

Up(t, x) == link' = [link EXCEPT ![t].up = Append(@, x)]
Down(l, t, x) == [l EXCEPT ![t].down = IF l[t].cut THEN @ ELSE Append(@, x)]
Says(t, x) == link[t].up # <<>> /\ Head(link[t].up) = x
Replies(t, x) == link[t].down # <<>> /\ Head(link[t].down) = x
Took(t) == [link EXCEPT ![t].up = Tail(@)]
Without(f, p) == [x \in DOMAIN f \ {p} |-> f[x]]

----------------------------------------------------------------------------
(* send, to a peer that discovery knows at this moment. *)
Queue(t) ==
    /\ out[t] = "none" /\ link[t] = NoLink
    /\ out' = [out EXCEPT ![t] = "waiting"]
    /\ UNCHANGED <<in, stop, tx, link, rx, disk, data, trouble>>

(* cancel: what waits is over at once, what runs is told. *)
Cancelled(tasks, t) == IF tasks[t] = "waiting" THEN [tasks EXCEPT ![t] = "error"] ELSE tasks

CancelOut(t) ==
    /\ out[t] \in Open
    /\ out' = Cancelled(out, t)
    /\ stop' = [stop EXCEPT !.out = @ \cup {t}]
    /\ UNCHANGED <<in, tx, link, rx, disk, data, trouble>>

CancelIn(t) ==
    /\ in[t] \in Open
    /\ in' = Cancelled(in, t)
    /\ stop' = [stop EXCEPT !.in = @ \cup {t}]
    /\ UNCHANGED <<out, tx, link, rx, disk, data, trouble>>

(* remove. *)
RemoveOut(t) ==
    /\ out[t] \notin {"none", "gone"}
    /\ out' = [out EXCEPT ![t] = "gone"]
    /\ stop' = [stop EXCEPT !.out = IF out[t] \in Open THEN @ \cup {t} ELSE @]
    /\ UNCHANGED <<in, tx, link, rx, disk, data, trouble>>

RemoveIn(t) ==
    /\ in[t] \notin {"none", "gone"}
    /\ in' = [in EXCEPT ![t] = "gone"]
    /\ stop' = [stop EXCEPT !.in = IF in[t] \in Open THEN @ \cup {t} ELSE @]
    /\ UNCHANGED <<out, tx, link, rx, disk, data, trouble>>

(* complete_task and fail_task, of a task that may be gone; a task that is *)
(* done stays so.                                                          *)
Completed(tasks, t) ==
    IF tasks[t] \in {"none", "gone"} THEN tasks ELSE [tasks EXCEPT ![t] = "done"]
Failed(tasks, t) ==
    IF tasks[t] \in {"none", "gone", "done"} THEN tasks ELSE [tasks EXCEPT ![t] = "error"]
Alive(tasks, t, set) == tasks[t] \notin {"none", "gone"} /\ t \notin set

----------------------------------------------------------------------------
(* sender_loop and send_one. *)

(* next_waiting_out. *)
Take ==
    /\ tx.task = Nobody
    /\ \E t \in Task : \E len \in Lengths :
         /\ out[t] = "waiting" /\ t \notin stop.out
         /\ out' = [out EXCEPT ![t] = "active"]
         /\ tx' = [NoTx EXCEPT !.task = t, !.pc = "connect", !.len = len]
    /\ UNCHANGED <<in, stop, link, rx, disk, data, trouble>>

Failing(t) ==
    /\ out' = Failed(out, t)
    /\ tx' = NoTx
    /\ link' = [link EXCEPT ![t].cut = TRUE, ![t].down = <<>>]

(* The peer is unknown, the file cannot be opened, or connect_peer has     *)
(* tried often enough.                                                     *)
NoConnection ==
    /\ tx.pc = "connect" /\ Failing(tx.task)
    /\ UNCHANGED <<in, stop, rx, disk, data, trouble>>

Connect ==
    /\ tx.pc = "connect"
    /\ Up(tx.task, "offer")
    /\ tx' = [tx EXCEPT !.pc = "offered"]
    /\ UNCHANGED <<out, in, stop, rx, disk, data, trouble>>

Accepted ==
    /\ tx.pc = "offered" /\ Replies(tx.task, "accept")
    /\ link' = [link EXCEPT ![tx.task].down = Tail(@)]
    /\ tx' = [tx EXCEPT !.pc = "sending"]
    /\ UNCHANGED <<out, in, stop, rx, disk, data, trouble>>

(* One chunk, or the empty frame at the end of the file. *)
SendChunk ==
    /\ tx.pc = "sending" /\ ~link[tx.task].cut
    /\ IF tx.sent < tx.len
       THEN Up(tx.task, "chunk") /\ tx' = [tx EXCEPT !.sent = @ + 1]
       ELSE Up(tx.task, "end") /\ tx' = [tx EXCEPT !.pc = "receipt"]
    /\ UNCHANGED <<out, in, stop, rx, disk, data, trouble>>

(* Refused, cancelled, broken, or the other side's answer is late (15 s    *)
(* for the handshake, 60 s for the receipt).                               *)
SendFails ==
    /\ \/ tx.pc \in {"offered", "receipt"}
       \/ tx.pc = "sending" /\ (link[tx.task].cut \/ ~Alive(out, tx.task, stop.out))
    /\ ~Replies(tx.task, "ok") /\ ~Replies(tx.task, "accept")
    /\ Failing(tx.task)
    /\ UNCHANGED <<in, stop, rx, disk, data, trouble>>

Receipt ==
    /\ tx.pc = "receipt" /\ Replies(tx.task, "ok")
    /\ out' = Completed(out, tx.task)
    /\ tx' = NoTx
    /\ link' = [link EXCEPT ![tx.task].cut = TRUE, ![tx.task].down = <<>>]
    /\ UNCHANGED <<in, stop, rx, disk, data, trouble>>

----------------------------------------------------------------------------
(* accept_loop and receive_one. *)

Naming(u) == rx[u].pc \in {"reserved", "named"}
Alone(t) == Racing \/ \A u \in Task \ {t} : ~Naming(u)

(* reserve_pair and unique_final. *)
FreePair ==
    Min({n \in 0..Cardinality(Task) : {Final(n), Part(n)} \cap DOMAIN disk = {}})
UniqueFinal == Min({n \in 0..Cardinality(Task) : Final(n) \notin DOMAIN disk})

(* The offer is read and a free name is looked for. *)
Reserve(t) ==
    /\ rx[t].pc = "none" /\ Says(t, "offer") /\ Alone(t)
    /\ link' = Took(t)
    /\ rx' = [rx EXCEPT ![t].pc = "reserved", ![t].n = FreePair]
    /\ UNCHANGED <<out, in, stop, tx, disk, data, trouble>>

(* File::create: a file that is there already is emptied. *)
Create(t) ==
    /\ rx[t].pc = "reserved"
    /\ LET p == Part(rx[t].n)
           node == IF p \in DOMAIN disk THEN disk[p] ELSE t
       IN /\ disk' = [x \in DOMAIN disk \cup {p} |-> IF x = p THEN node ELSE disk[x]]
          /\ data' = [data EXCEPT ![node] = <<>>]
          /\ rx' = [rx EXCEPT ![t].pc = "created", ![t].node = node]
    /\ UNCHANGED <<out, in, stop, tx, link, trouble>>

(* Create fails: the offer is rejected. *)
Refuse(t) ==
    /\ rx[t].pc = "reserved" /\ trouble < MaxTrouble
    /\ trouble' = trouble + 1
    /\ rx' = [rx EXCEPT ![t] = Over]
    /\ link' = [Down(link, t, "reject") EXCEPT ![t].cut = TRUE, ![t].up = <<>>]
    /\ UNCHANGED <<out, in, stop, tx, disk, data>>

(* accept is sent and the task entered, or the part removed again. *)
Accept(t) ==
    /\ rx[t].pc = "created"
    /\ IF link[t].cut
       THEN /\ rx' = [rx EXCEPT ![t] = Over]
            /\ disk' = Without(disk, Part(rx[t].n))
            /\ UNCHANGED <<in, link>>
       ELSE /\ rx' = [rx EXCEPT ![t].pc = "frames"]
            /\ in' = [in EXCEPT ![t] = "waiting"]
            /\ link' = Down(link, t, "accept")
            /\ UNCHANGED disk
    /\ UNCHANGED <<out, stop, tx, data, trouble>>

Put(d, pos, v) ==
    [i \in 1..Max({Len(d), pos}) |-> IF i = pos THEN v ELSE IF i <= Len(d) THEN d[i] ELSE v]

(* A frame within the declared size is written where this task's handle    *)
(* stands.  Whether the task is alive was looked at before the wait, so a  *)
(* frame, or the end, may still be taken after a cancel (and sent, too).   *)
Frame(t) ==
    /\ rx[t].pc = "frames" /\ Says(t, "chunk")
    /\ rx[t].total < Size
    /\ LET pos == rx[t].total + 1 IN
         /\ data' = [data EXCEPT ![rx[t].node] = Put(@, pos, <<t, pos>>)]
         /\ rx' = [rx EXCEPT ![t].total = pos]
    /\ in' = [in EXCEPT ![t] = IF @ = "waiting" THEN "active" ELSE @]
    /\ link' = Took(t)
    /\ UNCHANGED <<out, stop, tx, disk, trouble>>

(* Mutant: a file that ended early is kept. *)
EndUncounted(t) ==
    /\ rx[t].pc = "frames" /\ Says(t, "end") /\ Alone(t)
    /\ rx' = [rx EXCEPT ![t].pc = "named",
                        ![t].to = IF Final(rx[t].n) \in DOMAIN disk THEN UniqueFinal
                                  ELSE rx[t].n]
    /\ link' = Took(t)
    /\ UNCHANGED <<out, in, stop, tx, disk, data, trouble>>

(* The end, with all that was declared: the final name is looked at again. *)
End(t) ==
    /\ rx[t].pc = "frames" /\ Says(t, "end") /\ Alone(t)
    /\ rx[t].total = Size
    /\ rx' = [rx EXCEPT ![t].pc = "named",
                        ![t].to = IF Final(rx[t].n) \in DOMAIN disk THEN UniqueFinal
                                  ELSE rx[t].n]
    /\ link' = Took(t)
    /\ UNCHANGED <<out, in, stop, tx, disk, data, trouble>>

(* Rename replaces what has the name; then the task is done and the        *)
(* receipt is sent.                                                        *)
Rename(t) ==
    /\ rx[t].pc = "named" /\ Part(rx[t].n) \in DOMAIN disk
    /\ LET node == disk[Part(rx[t].n)]
           rest == Without(disk, Part(rx[t].n))
           p == Final(rx[t].to)
       IN disk' = [x \in DOMAIN rest \cup {p} |-> IF x = p THEN node ELSE rest[x]]
    /\ rx' = [rx EXCEPT ![t] = Over]
    /\ in' = Completed(in, t)
    /\ link' = [Down(link, t, "ok") EXCEPT ![t].up = <<>>]
    /\ UNCHANGED <<out, stop, tx, data, trouble>>

(* abort_incoming: too much or too little, cancelled, broken, late, or the *)
(* part cannot be renamed.                                                 *)
Abort(t) ==
    /\ \/ /\ rx[t].pc = "frames"
          /\ \/ link[t].cut /\ link[t].up = <<>>
             \/ ~Alive(in, t, stop.in)
             \/ Says(t, "chunk") /\ rx[t].total = Size
             \/ Says(t, "end") /\ rx[t].total # Size
       \/ rx[t].pc = "named" /\ Part(rx[t].n) \notin DOMAIN disk
    /\ rx' = [rx EXCEPT ![t] = Over]
    /\ disk' = Without(disk, Part(rx[t].n))
    /\ in' = Failed(in, t)
    /\ link' = [Down(link, t, "failed") EXCEPT ![t].cut = TRUE, ![t].up = <<>>]
    /\ UNCHANGED <<out, stop, tx, data, trouble>>

----------------------------------------------------------------------------
(* The connection breaks: what is under way may still arrive, or not. *)
Cut(t) ==
    /\ trouble < MaxTrouble /\ ~link[t].cut /\ link[t] # NoLink
    /\ trouble' = trouble + 1
    /\ \E n \in 0..Len(link[t].up) : \E m \in 0..Len(link[t].down) :
         link' = [link EXCEPT ![t] = [up |-> SubSeq(@.up, 1, n), cut |-> TRUE,
                                      down |-> SubSeq(@.down, 1, m)]]
    /\ UNCHANGED <<out, in, stop, tx, rx, disk, data>>

(* A crash and a new start.  The table on the disk (persist_loop) is older *)
(* than what it was: a task may be missing, or not yet finished, in which  *)
(* case migrate_on_startup makes it an error.                              *)
Restored(now, then) ==
    \A t \in Task :
        IF now[t] \in Open THEN then[t] \in {"none", "error"}
        ELSE then[t] \in {now[t]} \cup IF now[t] = "none" THEN {} ELSE {"error"}

CrashOut ==
    /\ trouble < MaxTrouble /\ trouble' = trouble + 1
    /\ out' \in [Task -> {"none", "error", "done", "gone"}] /\ Restored(out, out')
    /\ tx' = NoTx
    /\ link' = [t \in Task |-> IF t = tx.task THEN [link[t] EXCEPT !.cut = TRUE, !.down = <<>>]
                               ELSE link[t]]
    /\ stop' = [stop EXCEPT !.out = {}]
    /\ UNCHANGED <<in, rx, disk, data>>

CrashIn ==
    /\ trouble < MaxTrouble /\ trouble' = trouble + 1
    /\ in' \in [Task -> {"none", "error", "done", "gone"}] /\ Restored(in, in')
    /\ rx' = [t \in Task |-> IF link[t] = NoLink THEN rx[t] ELSE Over]
    /\ link' = [t \in Task |-> IF link[t] = NoLink THEN NoLink
                               ELSE [link[t] EXCEPT !.cut = TRUE, !.up = <<>>]]
    /\ stop' = [stop EXCEPT !.in = {}]
    /\ UNCHANGED <<out, tx, disk, data>>

SendStep ==
    Take \/ NoConnection \/ Connect \/ Accepted \/ SendChunk \/ SendFails \/ Receipt
ReceiveStep(t) ==
    Reserve(t) \/ Create(t) \/ Refuse(t) \/ Accept(t) \/ Frame(t) \/ End(t) \/ Rename(t)
    \/ Abort(t)
UserStep(t) == Queue(t) \/ CancelOut(t) \/ CancelIn(t) \/ RemoveOut(t) \/ RemoveIn(t)

LanNext ==
    \/ CrashOut \/ CrashIn \/ SendStep
    \/ \E t \in Task : ReceiveStep(t) \/ UserStep(t) \/ Cut(t)

LanSpec == LanInit /\ [][LanNext]_lanVars
LanFairSpec == LanSpec /\ WF_lanVars(SendStep) /\ \A t \in Task : WF_lanVars(ReceiveStep(t))

----------------------------------------------------------------------------
LanTypes ==
    /\ {out[t] : t \in Task} \cup {in[t] : t \in Task}
         \subseteq {"none", "waiting", "active", "done", "error", "gone"}
    /\ DOMAIN disk \subseteq Path /\ tx.task \in Task \cup {Nobody}
    /\ \A t \in Task : rx[t].total <= Size

Delivered(t) == \E p \in DOMAIN disk : ~p.part /\ data[disk[p]] = Whole(t)

(* Nothing that looks complete is not (transfer.rs: a failed step never    *)
(* leaves a file that seems finished): every file with a final name is one *)
(* whole file that was sent, each under a name of its own, and what either *)
(* side calls done is there (the receipt is sent after the rename).        *)
WholeOrNothing ==
    /\ \A p \in DOMAIN disk : ~p.part => \E t \in Task : data[disk[p]] = Whole(t)
    /\ \A t \in Task : "done" \in {out[t], in[t]} => Delivered(t)

(* The queue is serial, and yet no file in it waits for ever behind one    *)
(* whose receiver is gone, refuses, is cancelled or never answers.         *)
QueueMoves == \A t \in Task : out[t] \in Open ~> out[t] \notin Open
=============================================================================
