------------------------------ MODULE Playlist ------------------------------
(***************************************************************************)
(* The download of an HLS playlist (xfer-http, playlist.rs) and the retry  *)
(* loop around it (xfer-engine, drive_playlist).  Unordered mode writes    *)
(* each segment to a file of its own and splices the contiguous prefix     *)
(* into the product; ordered mode keeps segments in memory and writes them *)
(* to the product in turn.                                                 *)
(*                                                                         *)
(* A unit of data is one chunk, named by the plan, the segment and the     *)
(* place it comes from, or a hole of zeros.  The initialisation segment is segment 1.  The     *)
(* product is written through a buffer, segment files are not.             *)
(***************************************************************************)
EXTENDS Integers, Sequences, FiniteSets, SequencesExt

CONSTANTS
    Size,       \* chunks of each segment
    Secret,     \* the encrypted segments
    Conns,      \* concurrent requests
    Retries,    \* attempts at a segment by one run
    Attempts,   \* PLAYLIST_TRANSIENT_ATTEMPTS
    ReadyMax,   \* MAX_UNWRITTEN_BYTES
    Worlds,     \* [mode, sites, plans, faults] a behaviour may live in;
                \* `faults` bounds how often each kind occurs
    NoPlan      \* no control file

Faults == {"pause", "crash", "net", "deny", "disk"}

PlaylistAssumption ==
    /\ Size \in Seq(Nat \ {0}) /\ Len(Size) > 0
    /\ Secret \subseteq DOMAIN Size
    /\ {Conns, Retries, Attempts, ReadyMax} \subseteq Nat \ {0}
    /\ \A w \in Worlds : w.faults \in [Faults -> Nat]

VARIABLES
    prod,       \* the product file
    segf,       \* the segment files there are
    plst,       \* the control file
    run,        \* the variables of download_playlist
    jobs,       \* requests in flight
    phase,      \* where the task stands
    left,       \* faults still to come
    past,       \* history: `killed` since a run came to its end;
                \* `spoilt`: a segment file may have wrong bytes in it
    world       \* constant of a behaviour

playVars == <<prod, segf, plst, run, jobs, phase, left, past, world>>

Count == Len(Size)
None == [x \in {} |-> <<>>]
Zero == <<>>
Seg(p, i) == [k \in 1..Size[i] |-> <<p, i, k>>]
Whole(p, n) == FlattenSeq([i \in 1..n |-> Seg(p, i)])
Ordered == world.mode = "ordered"
InMemory(i) == Ordered \/ i \in Secret
Position(r) == Len(prod) + Len(r.sink)
Without(f, i) == [x \in DOMAIN f \ {i} |-> f[x]]
With(f, i, v) == [x \in DOMAIN f \cup {i} |-> IF x = i THEN v ELSE f[x]]
Fault(k) == left[k] > 0 /\ left' = [left EXCEPT ![k] = @ - 1]

PlayInit ==
    /\ prod = <<>> /\ segf = None /\ jobs = None
    /\ plst = [plan |-> NoPlan]
    /\ run = [plan |-> NoPlan, try |-> 1]
    /\ phase = "idle" /\ world \in Worlds /\ left = world.faults
    /\ past = [killed |-> FALSE, spoilt |-> FALSE]

----------------------------------------------------------------------------
(* load_ctrl and what the two modes make of it. *)

Matches(p) == plst.plan = p /\ plst.mode = world.mode

NewRun(p, n, base, part, done) ==
    [plan |-> p, try |-> run.try, n |-> n, base |-> base, have |-> base + part,
     pend |-> part, next |-> n + 1, done |-> done, sink |-> <<>>,
     ready |-> None, err |-> "none", serr |-> "none"]

(* Mutant: only what is marked done survives a pause. *)
StartMarkedOnly(p) ==
    LET ok == Matches(p)
        base == IF ok /\ Len(prod) >= plst.bytes THEN plst.bytes ELSE 0
        done == IF ok THEN plst.mask \cap DOMAIN segf ELSE {}
    IN /\ segf' = [i \in done |-> segf[i]]
       /\ prod' = SubSeq(prod, 1, base)
       /\ run' = NewRun(p, IF base = 0 THEN 0 ELSE plst.prefix, base, 0, done)

(* unordered_resume, and the directory dropped when nothing matches. *)
StartUnordered(p) ==
    LET ok == Matches(p)
        base == IF ok /\ Len(prod) >= plst.bytes THEN plst.bytes ELSE 0
    IN /\ segf' = IF ok THEN segf ELSE None
       /\ prod' = SubSeq(prod, 1, base)
       /\ run' = NewRun(p, IF base = 0 THEN 0 ELSE plst.prefix, base, 0,
                        IF ok THEN plst.mask \cap DOMAIN segf ELSE {})

(* resume_state: an encrypted segment cannot be resumed in its middle. *)
StartOrdered(p) ==
    LET ok == Matches(p) /\ Len(prod) >= plst.bytes
        n == IF ok THEN plst.prefix ELSE 0
        base == IF ok THEN plst.bytes ELSE 0
        part == IF ok /\ n < Count /\ n + 1 \notin Secret
                     /\ Len(prod) >= base + plst.part
                THEN plst.part ELSE 0
    IN /\ prod' = SubSeq(prod, 1, base + part)
       /\ run' = NewRun(p, n, base, part, {})
       /\ UNCHANGED segf

(* One pass of drive_playlist: the manifest is fetched again. *)
Start ==
    /\ phase = "idle"
    /\ \E p \in world.plans : IF Ordered THEN StartOrdered(p) ELSE StartUnordered(p)
    /\ phase' = "run"
    /\ UNCHANGED <<plst, jobs, left, past, world>>

----------------------------------------------------------------------------
(* The main loop: write or splice what can be, fill the connections, await *)
(* one result.                                                             *)

Running == phase = "run" /\ run.err = "none"
CanAppend == run.n + 1 \in (IF Ordered THEN DOMAIN run.ready ELSE run.done)
ReadyBytes == FoldFunction(LAMBDA d, b : Len(d) + b, 0, run.ready)
CanSpawn ==
    /\ run.next <= Count /\ Cardinality(DOMAIN jobs) < Conns
    /\ Ordered => ReadyBytes < ReadyMax
Waiting == Running /\ run.n < Count /\ ~CanAppend /\ ~CanSpawn

CtrlOf(r, bytes, part) ==
    [plan |-> r.plan, mode |-> world.mode, prefix |-> r.n, bytes |-> bytes,
     part |-> part, mask |-> r.done]

(* The throttled save: flush the product first, give up when that fails. *)
Checkpoint(r) ==
    \/ run' = r /\ UNCHANGED <<prod, plst, left, past>>
    \/ /\ prod' = prod \o r.sink
       /\ run' = [r EXCEPT !.sink = <<>>]
       /\ plst' = CtrlOf(r, Position(r), 0)
       /\ UNCHANGED <<left, past>>
    \/ /\ Fault("disk")
       /\ run' = [r EXCEPT !.err = "io"]
       /\ UNCHANGED <<prod, plst, past>>

(* splice_seg copies a segment file to the product, then deletes it. *)
Splice ==
    /\ Running /\ CanAppend /\ ~Ordered
    /\ LET i == run.n + 1
           s == run.sink \o segf[i]
       IN /\ Checkpoint([run EXCEPT !.sink = s, !.n = i, !.done = @ \ {i},
                                    !.base = Len(prod) + Len(s)])
          /\ segf' = Without(segf, i)
    /\ UNCHANGED <<jobs, phase, world>>

WriteReady ==
    /\ Running /\ CanAppend /\ Ordered
    /\ LET i == run.n + 1
           s == run.sink \o run.ready[i]
       IN Checkpoint([run EXCEPT !.sink = s, !.n = i, !.base = Len(prod) + Len(s),
                                 !.ready = Without(@, i)])
    /\ UNCHANGED <<segf, jobs, phase, world>>

(* BufWriter hands its bytes to the kernel when it is full. *)
Spill ==
    /\ phase = "run" /\ run.sink # <<>>
    /\ prod' = prod \o run.sink
    /\ run' = [run EXCEPT !.sink = <<>>]
    /\ UNCHANGED <<segf, plst, jobs, phase, left, past, world>>

(* Segments already done are passed over. *)
Spawn ==
    /\ Running /\ run.n < Count /\ ~CanAppend /\ CanSpawn
    /\ LET i == run.next IN
         IF i \in run.done
         THEN /\ run' = [run EXCEPT !.next = i + 1]
              /\ UNCHANGED <<jobs, segf>>
         ELSE /\ run' = [run EXCEPT !.next = i + 1,
                                    !.pend = IF i = run.n + 1 THEN 0 ELSE @]
              /\ jobs' = With(jobs, i,
                     [at |-> 0, open |-> FALSE, got |-> <<>>, whole |-> FALSE, tries |-> 1,
                      hole |-> 0,
                      from |-> IF Ordered /\ i = run.n + 1 THEN run.pend ELSE 0])
              /\ segf' = IF Ordered \/ i \in DOMAIN segf THEN segf
                         ELSE With(segf, i, <<>>)
    /\ UNCHANGED <<prod, plst, phase, left, past, world>>

----------------------------------------------------------------------------
(* fetch_segment and fetch_body. *)

(* SegFile: `written` counts from the last reset, `hole` is what lies ahead. *)
Written(i) == IF segf[i] = <<>> THEN 0 ELSE Len(segf[i]) - jobs[i].hole
Offset(i) == IF InMemory(i) THEN jobs[i].from ELSE Written(i)
Append1(i, c) ==
    (IF segf[i] = <<>> THEN [k \in 1..jobs[i].hole |-> Zero] ELSE segf[i]) \o <<c>>

(* A segment is given up: ordered mode stops, unordered mode goes on with  *)
(* the others.  What an ordered request has received stays in `partials`.  *)
GiveUp(i, e) ==
    IF Ordered
    THEN run' = [run EXCEPT !.err = e] /\ UNCHANGED jobs
    ELSE /\ run' = [run EXCEPT !.serr = IF @ = "none" THEN e ELSE @]
         /\ jobs' = Without(jobs, i)

(* SegFile::reset: the file is cut to nothing, but the cursor stays where it *)
(* was, so that a hole as long as the old file comes before the new data.   *)
ResetFile(i) ==
    /\ segf' = With(segf, i, <<>>)
    /\ jobs' = [jobs EXCEPT ![i].open = TRUE, ![i].whole = TRUE, ![i].at = 0,
                            ![i].hole = Len(segf[i])]
    /\ past' = [past EXCEPT !.spoilt = TRUE]

(* The answer: a range is asked for only when something is there already,  *)
(* and a server may send all the same the whole segment.                   *)
Respond(i) ==
    /\ Waiting /\ i \in DOMAIN jobs /\ ~jobs[i].open
    /\ \/ /\ Offset(i) = 0 \/ "range" \in world.sites
          /\ Offset(i) < Size[i]
          /\ jobs' = [jobs EXCEPT ![i].open = TRUE, ![i].whole = FALSE,
                                  ![i].at = Offset(i)]
          /\ UNCHANGED <<run, segf, left, past>>
       \/ /\ Offset(i) > 0 /\ "whole" \in world.sites
          /\ IF InMemory(i)
             THEN /\ jobs' = [jobs EXCEPT ![i].open = TRUE, ![i].whole = TRUE, ![i].at = 0]
                  /\ UNCHANGED <<segf, past>>
             ELSE ResetFile(i)
          /\ UNCHANGED <<run, left>>
       \/ /\ "range" \in world.sites /\ Offset(i) >= Size[i]    \* 416
          /\ GiveUp(i, "range")
          /\ UNCHANGED <<segf, left, past>>
       \/ /\ Fault("deny")                                      \* 401, 403, 410
          /\ GiveUp(i, "deny")
          /\ UNCHANGED <<segf, past>>
    /\ UNCHANGED <<prod, plst, phase, world>>

(* A chunk arrives; what goes to a segment file may not fit on the disk. *)
Chunk(i) ==
    /\ Waiting /\ i \in DOMAIN jobs /\ jobs[i].open /\ jobs[i].at < Size[i]
    /\ LET c == <<run.plan, i, jobs[i].at + 1>> IN
         \/ /\ jobs' = [jobs EXCEPT ![i].at = @ + 1,
                                    ![i].got = IF InMemory(i) THEN Append(@, c) ELSE @]
            /\ segf' = IF InMemory(i) THEN segf ELSE With(segf, i, Append1(i, c))
            /\ UNCHANGED <<run, left>>
         \/ /\ ~InMemory(i) /\ Fault("disk")
            /\ run' = [run EXCEPT !.err = "io"]
            /\ UNCHANGED <<jobs, segf>>
    /\ UNCHANGED <<prod, plst, phase, past, world>>

(* Timeout, a broken stream or a short one: again from what is on disk. *)
Break(i) ==
    /\ Waiting /\ i \in DOMAIN jobs /\ Fault("net")
    /\ IF jobs[i].tries < Retries
       THEN /\ jobs' = [jobs EXCEPT ![i].tries = @ + 1, ![i].open = FALSE,
                                    ![i].got = <<>>]
            /\ UNCHANGED run
       ELSE GiveUp(i, "net")
    /\ UNCHANGED <<prod, segf, plst, phase, past, world>>

(* The stream ends.  The plaintext of an encrypted segment is written to   *)
(* its file only now, which is made anew.                                  *)
OverUnordered(i) ==
    \/ /\ segf' = IF i \in Secret THEN With(segf, i, jobs[i].got) ELSE segf
       /\ Checkpoint([run EXCEPT !.done = @ \cup {i}])
    \/ /\ i \in Secret /\ Fault("disk")
       /\ segf' = With(segf, i, <<>>)
       /\ run' = [run EXCEPT !.err = "io"]
       /\ UNCHANGED <<prod, plst, past>>

(* Mutant: the whole segment is put behind the part. *)
OverUncut(i) ==
    /\ run' = [run EXCEPT !.ready = With(@, i, jobs[i].got)]
    /\ UNCHANGED <<prod, segf, plst, left, past>>

(* A server that ignored the range: the part in the file is cut off. *)
OverOrdered(i) ==
    LET cut == jobs[i].whole /\ Position(run) > run.base
        r == [run EXCEPT !.ready = With(@, i, jobs[i].got)]
    IN /\ prod' = IF cut THEN SubSeq(prod \o run.sink, 1, run.base) ELSE prod
       /\ run' = IF cut THEN [r EXCEPT !.sink = <<>>] ELSE r
       /\ UNCHANGED <<segf, plst, left, past>>

Over(i) ==
    /\ Waiting /\ i \in DOMAIN jobs /\ jobs[i].open /\ jobs[i].at = Size[i]
    /\ IF Ordered THEN OverOrdered(i) ELSE OverUnordered(i)
    /\ jobs' = Without(jobs, i)
    /\ UNCHANGED <<phase, world>>

----------------------------------------------------------------------------
(* The end of a run. *)

Pause ==
    /\ Waiting /\ jobs # None /\ Fault("pause")
    /\ run' = [run EXCEPT !.err = "cancelled"]
    /\ UNCHANGED <<prod, segf, plst, jobs, phase, past, world>>

Remainder ==
    IF Ordered /\ run.err # "none" /\ run.n + 1 \in DOMAIN jobs
         /\ run.n + 1 \notin Secret
    THEN jobs[run.n + 1].got ELSE <<>>

(* Mutant: a run whose segments were given up is not over. *)
CloseOnlyWhole ==
    /\ phase = "run" /\ (run.err # "none" \/ run.n = Count)
    /\ prod' = prod \o run.sink
    /\ run' = [run EXCEPT !.sink = <<>>, !.have = Position(run)]
    /\ jobs' = None
    /\ phase' = "closing"
    /\ UNCHANGED <<segf, plst, left, past, world>>

(* The requests are dropped, the product is flushed, or that fails. *)
Close ==
    /\ phase = "run"
    /\ run.err # "none" \/ run.n = Count \/ (Waiting /\ jobs = None)
    /\ LET s == run.sink \o Remainder
           pos == Len(prod) + Len(s) IN
         \/ /\ prod' = prod \o s
            /\ run' = [run EXCEPT !.sink = <<>>, !.have = pos]
            /\ UNCHANGED left
         \/ /\ Fault("disk")
            /\ run' = [run EXCEPT !.sink = <<>>, !.have = IF Ordered THEN @ ELSE pos,
                                  !.err = IF @ = "none" THEN "io" ELSE @]
            /\ UNCHANGED prod
    /\ jobs' = None
    /\ phase' = "closing"
    /\ UNCHANGED <<segf, plst, past, world>>

Transient == {"net", "deny"}
Outcome ==
    IF run.err # "none" THEN run.err
    ELSE IF run.serr # "none" THEN run.serr ELSE "net"

(* Not everything is there: the control file is written, and the task      *)
(* pauses, tries again or fails.                                           *)
Abandon ==
    /\ phase = "closing"
    /\ run.err # "none" \/ run.n < Count
    /\ plst' = IF Ordered
               THEN CtrlOf(run, run.base, IF run.have > run.base
                                          THEN run.have - run.base ELSE 0)
               ELSE CtrlOf(run, run.have, 0)
    /\ LET again == Outcome \in Transient /\ run.try < Attempts IN
         /\ phase' = IF Outcome = "cancelled" THEN "paused"
                     ELSE IF again THEN "idle" ELSE "failed"
         /\ run' = [plan |-> run.plan, try |-> IF again THEN run.try + 1 ELSE 1]
    /\ past' = [past EXCEPT !.killed = FALSE]
    /\ UNCHANGED <<prod, segf, jobs, left, world>>

(* Everything is: the directory goes first, then the control file. *)
Sweep ==
    /\ phase = "closing" /\ run.err = "none" /\ run.n = Count
    /\ segf' = IF Ordered THEN segf ELSE None
    /\ phase' = "swept"
    /\ UNCHANGED <<prod, plst, run, jobs, left, past, world>>

Complete ==
    /\ phase = "swept"
    /\ plst' = [plan |-> NoPlan]
    /\ phase' = "done"
    /\ past' = [past EXCEPT !.killed = FALSE]
    /\ UNCHANGED <<prod, segf, run, jobs, left, world>>

Unpause ==
    /\ phase = "paused"
    /\ phase' = "idle"
    /\ UNCHANGED <<prod, segf, plst, run, jobs, left, past, world>>

(* The mask saved last is older than the segment files that the next run   *)
(* finds: segments it has as done were spliced, their files deleted and,   *)
(* after a resume, made anew; or the files are of another plan.            *)
Stale == past.killed \/ plst.plan \notin {NoPlan, run.plan}

(* The process dies: buffers and requests are gone, files stay. *)
Kill ==
    /\ phase \in {"run", "closing", "swept"} /\ Fault("crash")
    /\ run' = [plan |-> run.plan, try |-> 1]
    /\ jobs' = None
    /\ phase' = "idle"
    /\ past' = [killed |-> TRUE, spoilt |-> past.spoilt \/ (~Ordered /\ Stale)]
    /\ UNCHANGED <<prod, segf, plst, world>>

PlayStep ==
    \/ Start \/ Splice \/ WriteReady \/ Spawn \/ Close \/ Abandon \/ Sweep
    \/ Complete \/ Unpause
    \/ \E i \in DOMAIN Size : Respond(i) \/ Chunk(i) \/ Over(i)

PlayNext == PlayStep \/ Spill \/ Pause \/ Kill \/ \E i \in DOMAIN Size : Break(i)

PlaySpec == PlayInit /\ [][PlayNext]_playVars
PlayFairSpec == PlaySpec /\ WF_playVars(PlayStep)

----------------------------------------------------------------------------
(* The three hold of a download unless its segment files are spoilt: by a  *)
(* server that sends a whole segment where a range was asked for, or by a  *)
(* process killed while the control file was stale (README, section 8).    *)

(* The product starts with the segments counted as written, whatever was   *)
(* resumed, cut off or killed before (the key invariant of ResumeState).   *)
PrefixTrue ==
    phase = "run" /\ ~past.spoilt
        => SubSeq(prod \o run.sink, 1, run.base) = Whole(run.plan, run.n)

(* A segment marked done has all its chunks, from this plan, in its file   *)
(* (the directory of another plan is never reused).                        *)
DoneWhole ==
    phase = "run" /\ ~past.spoilt
        => \A i \in run.done : i \in DOMAIN segf /\ segf[i] = Seg(run.plan, i)

(* A product handed on as complete is the whole playlist, in order. *)
ProductExact ==
    phase \in {"swept", "done"} /\ ~past.spoilt => prod = Whole(run.plan, Count)

(* A pause loses nothing: the next run keeps every chunk on the disk. *)
OnDisk(p, f) == Len(p) + FoldFunction(LAMBDA d, b : Len(d) + b, 0, f)
PauseKeeps ==
    [][phase = "idle" /\ phase' = "run" /\ plst.plan = run'.plan /\ world.faults["crash"] + world.faults["disk"] = 0
         => OnDisk(prod', segf') = OnDisk(prod, segf)]_playVars

(* A playlist that the server still offers can be finished after any       *)
(* pause, restart or broken connection.                                    *)
NeverStuck == phase # "failed"

(* Every run comes to an end. *)
Rests == phase \in {"paused", "done", "failed"}
RunsEnd == []<>Rests
=============================================================================
