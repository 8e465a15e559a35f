------------------------------ MODULE FlvRecord ------------------------------
(* Recording an HTTP-FLV stream (flv.rs: FlvStream and record_flv;          *)
(* manager.rs: try_flv): one response that never ends is written tag by tag *)
(* with its times moved so that the parts of every connection follow each   *)
(* other, with a control file for the place where a paused recording goes   *)
(* on.  Abstracted: a chunk carries one structure (a file header, a script  *)
(* tag, a media tag, half a tag, something else); the media tags of the     *)
(* stream are one unit of time apart and are numbered by their time.        *)
EXTENDS FiniteSets, Naturals, Sequences

CONSTANTS
  MaxTags,     \* bound: media tags of the stream
  Finite,      \* TRUE: the address may become a file of declared length
  GoneLimit, EmptyLimit, \* GONE_LIMIT, EMPTY_LIMIT
  MaxTroubles, \* bound: connections that fail or break before the stream is over
  MaxPauses, MaxCrashes, \* bounds: pauses and resumptions, crashes
  NoCtrl, NoProbe        \* model values

FlvAssumption ==
  /\ MaxTags \in Nat /\ Finite \in BOOLEAN /\ MaxTroubles \in Nat
  /\ GoneLimit \in Nat \ {0} /\ EmptyLimit \in Nat \ {0} /\ MaxPauses \in Nat /\ MaxCrashes \in Nat

VARIABLES
  site, now,    \* what the address serves: "live", "file", "gone"; the stream's last tag
  status,       \* the task: "paused", "active", "complete", "failed"
  phase,        \* record_flv: "top", "connect", "read", "gone", "backoff", "end"
  file, synced, \* the recording; how much of it the kernel has
  ctrl,         \* the control file
  parser, pending, dirty, \* FlvStream; pending_open; dirty
  link,         \* the connection: what it sends next and whether it declared a length
  goneStreak, emptyStreak, silent, \* silent: connections since data came (last_data)
  exit, cancelled,
  troubles, pauses, crashes

site_vars == <<site, now>>
disk_vars == <<file, synced, ctrl>>
rec_vars == <<parser, pending, dirty, link, goneStreak, emptyStreak, silent>>
task_vars == <<status, phase, exit, cancelled>>
counts == <<troubles, pauses, crashes>>
flvVars == <<site_vars, disk_vars, rec_vars, task_vars, counts>>

Media(at, id) == [is |-> "media", at |-> at, id |-> id]
Script(at) == [is |-> "script", at |-> at, id |-> 0]
Header == [is |-> "header", at |-> 0, id |-> 0]
NoLink == [kind |-> "none", at |-> 0, got |-> FALSE]

Medias(s) == {k \in DOMAIN s : s[k].is = "media"}
LastMedia(s, k) == k \in Medias(s) /\ \A j \in Medias(s) : j <= k

(* A recording's length is its last media tag's time.                       *)
EndsAt(s, ms) == IF Medias(s) = {} THEN ms = 0
                 ELSE \E k \in Medias(s) : LastMedia(s, k) /\ s[k].at = ms

NewParser(ms, bytes, probe) ==
  [started |-> FALSE, headed |-> bytes > 0, shift |-> <<>>, end |-> ms,
   probe |-> probe, media |-> FALSE, replay |-> FALSE]

(* Mutant. *)
KeepShift(p) == [p EXCEPT !.started = FALSE, !.media = FALSE, !.replay = FALSE]

BeginSegment(p) == [p EXCEPT !.started = FALSE, !.shift = <<>>, !.media = FALSE, !.replay = FALSE]

FlvTypes ==
  /\ site \in {"live", "file", "gone"} /\ now \in 0 .. MaxTags
  /\ status \in {"paused", "active", "complete", "failed"}
  /\ phase \in {"top", "connect", "read", "gone", "backoff", "end"}
  /\ synced \in 0 .. Len(file) /\ dirty \in BOOLEAN /\ cancelled \in BOOLEAN
  /\ goneStreak \in 0 .. GoneLimit /\ emptyStreak \in 0 .. EmptyLimit

FlvInit ==
  /\ site = "live" /\ now = 0
  /\ status = "paused" /\ phase = "top" /\ exit = "none" /\ cancelled = FALSE
  /\ file = <<>> /\ synced = 0 /\ ctrl = NoCtrl
  /\ parser = NewParser(0, 0, NoProbe) /\ pending = <<>> /\ dirty = FALSE /\ link = NoLink
  /\ goneStreak = 0 /\ emptyStreak = 0 /\ silent = 0
  /\ troubles = 0 /\ pauses = 0 /\ crashes = 0

----------------------------------------------------------------------------
(* The stream: time goes by; the broadcast ends, or is put up as a file.    *)
Air ==
  /\ site = "live" /\ now < MaxTags /\ phase # "read"
  /\ now' = now + 1
  /\ UNCHANGED <<site, disk_vars, rec_vars, task_vars, counts>>

Closes ==
  /\ site = "live"
  /\ site' \in IF Finite THEN {"gone", "file"} ELSE {"gone"}
  /\ UNCHANGED <<now, disk_vars, rec_vars, task_vars, counts>>

(* The task is started or resumed: on the control file's place if the file  *)
(* is that long, and else from nothing.                                     *)
Resume ==
  LET good == ctrl # NoCtrl /\ Len(file) >= ctrl.bytes IN
  /\ status \in {"paused", "failed"} /\ pauses < MaxPauses /\ pauses' = pauses + 1
  /\ status' = "active" /\ phase' = "top" /\ exit' = "none" /\ cancelled' = FALSE
  /\ file' = IF good THEN SubSeq(file, 1, ctrl.bytes) ELSE <<>>
  /\ synced' = Len(file')
  /\ parser' = IF good THEN NewParser(ctrl.ms, ctrl.bytes, ctrl.probe) ELSE NewParser(0, 0, NoProbe)
  /\ pending' = <<>> /\ dirty' = FALSE /\ link' = NoLink
  /\ goneStreak' = 0 /\ emptyStreak' = 0 /\ silent' = 0
  /\ UNCHANGED <<site_vars, ctrl, troubles, crashes>>

CtrlOf == [bytes |-> Len(file), ms |-> parser.end, probe |-> parser.probe]

(* The top of the loop: the end by silence, the control file at most once a *)
(* second, the next connection.                                             *)
Top ==
  /\ status = "active" /\ phase = "top" /\ ~cancelled
  /\ \/ silent > 0 /\ exit' = "stalled" /\ phase' = "end" /\ UNCHANGED <<disk_vars, dirty, parser, pending>>
     \/ /\ IF dirty THEN \/ synced' = Len(file) /\ ctrl' = CtrlOf /\ dirty' = FALSE
                         \/ UNCHANGED <<synced, ctrl, dirty>>
                    ELSE UNCHANGED <<synced, ctrl, dirty>>
        /\ parser' = BeginSegment(parser) /\ pending' = <<>>
        /\ phase' = "connect"
        /\ UNCHANGED <<exit, file>>
  /\ UNCHANGED <<site_vars, link, goneStreak, emptyStreak, silent, status, cancelled, counts>>

Fails ==
  /\ status = "active" /\ phase \in {"connect", "read"} /\ ~cancelled
  /\ troubles < MaxTroubles /\ troubles' = troubles + 1 /\ silent' = 1
  /\ \/ phase = "connect" /\ phase' = "backoff" /\ UNCHANGED exit
     \/ phase' = "end" /\ exit' = "error" \* not worth a retry
  /\ UNCHANGED <<site_vars, disk_vars, parser, pending, dirty, link, goneStreak, emptyStreak,
                 status, cancelled, pauses, crashes>>

Missing ==
  /\ status = "active" /\ phase = "connect" /\ ~cancelled
  /\ site = "gone"
  /\ goneStreak' = goneStreak + 1 /\ silent' = 1
  /\ IF goneStreak' >= GoneLimit THEN exit' = "gone" /\ phase' = "end" ELSE phase' = "gone" /\ UNCHANGED exit
  /\ UNCHANGED <<site_vars, disk_vars, parser, pending, dirty, link, emptyStreak, status, cancelled, counts>>

GoneDelay ==
  /\ status = "active" /\ phase = "gone" /\ ~cancelled /\ phase' = "top"
  /\ UNCHANGED <<site_vars, disk_vars, rec_vars, status, exit, cancelled, counts>>

(* An ended stream may also be answered with an empty response, or with the *)
(* whole broadcast again and no declared length.                            *)
Opens ==
  /\ status = "active" /\ phase = "connect" /\ ~cancelled
  /\ goneStreak' = 0
  /\ \E kind \in CASE site = "live" -> {"live"} [] site = "file" -> {"file"} [] OTHER -> {"empty"} \cup IF now > 0 THEN {"replay"} ELSE {} :
       IF kind = "file" /\ file # <<>>
       THEN exit' = "gone" /\ phase' = "end" /\ UNCHANGED link
       ELSE /\ link' = [kind |-> kind, at |-> 0, got |-> FALSE]
            /\ phase' = "read" /\ UNCHANGED exit
  /\ UNCHANGED <<site_vars, disk_vars, parser, pending, dirty, emptyStreak, silent, status, cancelled, counts>>

----------------------------------------------------------------------------
Reading == status = "active" /\ phase = "read" /\ ~cancelled

(* FlvStream::map_ts; the raw time of a tag is its number.                  *)
Mapped(p, ts) ==
  LET shift == IF p.shift = <<>> THEN <<ts, p.end>> ELSE p.shift
      at == IF ts + shift[2] > shift[1] THEN ts + shift[2] - shift[1] ELSE 0
  IN  [p EXCEPT !.shift = shift, !.end = IF at > @ THEN at ELSE @, !.media = TRUE,
                !.probe = IF p.media \/ @ # NoProbe THEN @ ELSE ts,
                !.replay = @ \/ (~p.media /\ p.probe = ts)]

(* write_out, after what was held back.                                     *)
Written(p, s) ==
  IF p.media THEN file' = file \o pending \o s /\ pending' = <<>>
             ELSE pending' = pending \o s /\ UNCHANGED file

Got(s, p) ==
  /\ parser' = p
  /\ link' = [link EXCEPT !.got = TRUE, !.at = IF s # <<>> /\ s[1].is = "media" THEN s[1].id ELSE @]
  /\ silent' = 0
  /\ IF p.replay
     THEN exit' = "ended" /\ phase' = "end" /\ UNCHANGED <<file, pending, dirty>>
     ELSE /\ Written(p, s) /\ dirty' = (dirty \/ s # <<>>)
          /\ UNCHANGED <<exit, phase>>
  /\ UNCHANGED <<site, synced, ctrl, goneStreak, emptyStreak, status, cancelled, counts>>

ReadHeader ==
  /\ Reading /\ link.kind # "empty" /\ ~parser.started
  /\ Got(IF parser.headed THEN <<>> ELSE <<Header>>, [parser EXCEPT !.started = TRUE, !.headed = TRUE])
  /\ UNCHANGED now

(* A script tag keeps the recording's end as its time until a media tag came.*)
ReadScript ==
  /\ Reading /\ parser.started /\ ~parser.media /\ pending # <<Script(parser.end)>>
  /\ \A k \in DOMAIN pending : pending[k].is # "script"
  /\ Got(<<Script(parser.end)>>, parser)
  /\ UNCHANGED now

ReadMedia ==
  /\ Reading /\ parser.started
  /\ LET id == CASE link.kind = "live" -> now + 1
                 [] OTHER -> IF link.at = 0 /\ link.kind = "replay" /\ parser.probe # NoProbe
                             THEN parser.probe ELSE link.at + 1
         p == Mapped(parser, id)
     IN  /\ id <= IF link.kind = "live" THEN MaxTags ELSE now
         /\ Got(<<Media(p.end, id)>>, p)
         /\ now' = IF link.kind = "live" THEN id ELSE now

(* Not FLV: a new recording is left to the plain download, a resumed one    *)
(* takes it for a failed attempt.                                           *)
ReadJunk ==
  /\ Reading /\ ~parser.started /\ troubles < MaxTroubles /\ troubles' = troubles + 1
  /\ silent' = 0
  /\ IF file = <<>> /\ ctrl = NoCtrl
     THEN phase' = "end" /\ exit' = "notFlv" /\ UNCHANGED parser
     ELSE phase' = "backoff" /\ parser' = NewParser(parser.end, 1, parser.probe) /\ UNCHANGED exit
  /\ emptyStreak' = 0 /\ link' = NoLink
  /\ UNCHANGED <<site_vars, disk_vars, pending, dirty, goneStreak, status, cancelled, pauses, crashes>>

Empties == IF link.got THEN 0 ELSE emptyStreak + 1

(* EOF, five silent seconds or a broken connection: of a response with a    *)
(* declared length it is the end.                                           *)
Break ==
  LET over == site # "live" /\ (link.kind \in {"live", "empty"} \/ link.at >= now) IN
  /\ Reading
  /\ over \/ troubles < MaxTroubles
  /\ troubles' = IF over THEN troubles ELSE troubles + 1
  /\ link' = NoLink
  /\ IF link.kind = "file" THEN exit' = "ended" /\ phase' = "end" /\ UNCHANGED <<emptyStreak, silent>>
     ELSE /\ emptyStreak' = Empties
          /\ silent' = IF link.got THEN silent ELSE 1
          /\ IF emptyStreak' >= EmptyLimit THEN exit' = "gone" /\ phase' = "end"
                                           ELSE phase' = "backoff" /\ UNCHANGED exit
  /\ UNCHANGED <<site_vars, disk_vars, parser, pending, dirty, goneStreak, status, cancelled, pauses, crashes>>

BackedOff ==
  /\ status = "active" /\ phase = "backoff" /\ ~cancelled /\ phase' = "top"
  /\ UNCHANGED <<site_vars, disk_vars, rec_vars, status, exit, cancelled, counts>>

----------------------------------------------------------------------------
Pause ==
  /\ status = "active" /\ phase # "end" /\ ~cancelled /\ cancelled' = TRUE
  /\ UNCHANGED <<site_vars, disk_vars, rec_vars, status, phase, exit, counts>>

(* A pause is seen everywhere but while it backs off as an end of the       *)
(* recording; backoff's error leaves the function at once.                  *)
PauseSeen ==
  /\ status = "active" /\ cancelled /\ phase \in {"top", "connect", "read", "gone"}
  /\ exit' = "cancelled" /\ phase' = "end" /\ link' = NoLink
  /\ UNCHANGED <<site_vars, disk_vars, parser, pending, dirty, goneStreak, emptyStreak, silent, status, cancelled, counts>>

PauseInBackoff ==
  /\ status = "active" /\ cancelled /\ phase = "backoff"
  /\ status' = "paused" /\ phase' = "top" /\ cancelled' = FALSE
  /\ synced' = Len(file) \* the buffered writer is dropped
  /\ UNCHANGED <<site_vars, file, ctrl, rec_vars, exit, counts>>

(* The end: everything is flushed; the control file is kept after a pause   *)
(* or an error and removed after the recording's end.                       *)
End ==
  /\ status = "active" /\ phase = "end"
  /\ synced' = Len(file) /\ cancelled' = FALSE
  /\ CASE exit = "notFlv" -> status' = "complete" /\ UNCHANGED ctrl \* the plain download's
       [] exit \in {"cancelled", "error"} ->
            ctrl' = CtrlOf /\ status' = IF exit = "error" THEN "failed" ELSE "paused"
       [] OTHER -> IF file = <<>> THEN status' = "failed" /\ UNCHANGED ctrl
                                  ELSE status' = "complete" /\ ctrl' = NoCtrl
  /\ phase' = "top"
  /\ UNCHANGED <<site_vars, file, rec_vars, exit, counts>>

(* The program is killed: what it had not handed over is gone.              *)
Crash ==
  /\ status = "active" /\ crashes < MaxCrashes /\ crashes' = crashes + 1
  /\ \E k \in synced .. Len(file) : file' = SubSeq(file, 1, k) /\ synced' = k
  /\ status' = "paused" /\ phase' = "top" /\ cancelled' = FALSE /\ link' = NoLink
  /\ UNCHANGED <<site_vars, ctrl, parser, pending, dirty, goneStreak, emptyStreak, silent, exit, troubles, pauses>>

Records ==
  Top \/ Missing \/ GoneDelay \/ Opens \/ ReadHeader \/ ReadMedia \/ Break \/ BackedOff
    \/ PauseSeen \/ PauseInBackoff \/ End

FlvNext == Records \/ Air \/ Closes \/ Resume \/ Fails \/ ReadScript \/ ReadJunk \/ Pause \/ Crash

FlvSpec == FlvInit /\ [][FlvNext]_flvVars

(* The recorder goes on, and an ended response is answered.                 *)
FlvFairSpec == FlvSpec /\ WF_flvVars(Records)

----------------------------------------------------------------------------
(* "段与段首尾相接 —— 产物从 0 开始、连续可播": the times of the recording begin *)
(* at 0, never go back and hold no gap but what was lost within a           *)
(* connection, no tag is there twice, and where the control file says a     *)
(* recording goes on is its recorded length at a whole tag.                 *)
Follow(s, j, k) == /\ s[j].id < s[k].id
                   /\ s[k].at = s[j].at \/ s[k].at = s[j].at + 1
Contiguous(s) ==
  \A k \in Medias(s) :
    IF \A j \in Medias(s) : k <= j THEN s[k].at = 0
    ELSE \E j \in Medias(s) : /\ j < k /\ Follow(s, j, k)
                              /\ \A l \in Medias(s) : l < k => l <= j
TimelineClosed ==
  /\ Contiguous(file)
  /\ (ctrl # NoCtrl /\ ctrl.bytes <= Len(file)) => EndsAt(SubSeq(file, 1, ctrl.bytes), ctrl.ms)

(* A stream that is over is finished with, unless it is paused or fails.    *)
(* (A stream that is over never comes back.)                                *)
Rests == site = "live" \/ status # "active"
RecordEnds == []<>Rests

(* "断点现场 …暂停 / 失败都保留": violated when it is paused while it backs off.  *)
PauseKept == status = "paused" /\ crashes = 0 /\ file # <<>> => ctrl # NoCtrl /\ ctrl.bytes = Len(file)

(* "产物是一份连续文件": a recording begins with the file header.  Violated when *)
(* a connection breaks after the header and before its first media tag.     *)
HeaderFirst == file # <<>> => file[1] = Header

(* "有限资源：读到 EOF（或读满总长）就是结束": violated, a broken connection of a  *)
(* response with a declared length also counts as its end.                  *)
FileWhole == status = "complete" /\ site = "file" /\ exit = "ended" => file # <<>> /\ Cardinality(Medias(file)) = now

=============================================================================
