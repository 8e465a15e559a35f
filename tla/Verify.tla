------------------------------- MODULE Verify -------------------------------
(* Checking what is already on disk (engine.rs: verify_existing_data,       *)
(* preview_existing_data and verify_existing_files_blocking; manager.rs:    *)
(* preview_bt) and the arithmetic of progress under a file selection        *)
(* (piece.rs, task.rs and done_bytes_of, which count it separately).        *)
(* Abstracted: a piece is read and hashed in one step; a hash tells right   *)
(* bytes from wrong ones; time is the action Expire.                        *)
EXTENDS FiniteSetsExt, Integers, SequencesExt

CONSTANTS
  PieceLen,
  Layouts,    \* the torrents: sequences of file lengths
  MaxBad,     \* bound: wrong bytes on disk
  MaxWorkers, \* verify_workers: the processors, at most 8
  CacheLimit, \* VerifyFileCache: handles a worker keeps
  MaxRuns,    \* bound: checks begun
  MaxShrinks, \* bound: files truncated from outside
  MaxSelects  \* bound: selections made

VerifyAssumption ==
  /\ PieceLen \in Nat \ {0} /\ MaxWorkers \in Nat \ {0} /\ CacheLimit \in Nat \ {0}
  /\ MaxBad \in Nat /\ MaxRuns \in Nat /\ MaxShrinks \in Nat /\ MaxSelects \in Nat
  /\ \A l \in Layouts : \A f \in DOMAIN l : l[f] \in Nat

VARIABLES
  lens, size, bad,   \* file lengths; bytes on disk (Absent: no file); wrong bytes
  who,               \* the check under way: "none", "engine" or "preview"
  mask, next, cache, found, \* its pieces; per worker: next piece, handles, pieces found
  prog,              \* VerifyProgress with the progress of each file
  atBegin,           \* pieces that were right when the check began
  result,            \* <<pieces, pieces right at its begin, at its end>> of the last check
  job,               \* PreviewJob: "none", "running", "done"
  marks, sel, total, done, \* bitfield, <<files>> selected or <<>>, total_bytes, done_bytes
  runs, shrinks, selects

disk_vars == <<lens, size, bad>>
hash_vars == <<who, mask, next, cache, found, prog, atBegin>>
engine_vars == <<marks, sel, total, done>>
counts == <<runs, shrinks, selects>>
verifyVars == <<disk_vars, hash_vars, result, job, engine_vars, counts>>

Absent == -1
Files == DOMAIN lens
LengthOf(fs) == MapThenSumSet(LAMBDA f : lens[f], fs)
Offset(f) == LengthOf(1 .. f - 1)
Total == LengthOf(Files)
Count == (Total + PieceLen - 1) \div PieceLen
Pieces == 0 .. Count - 1
Least(a, b) == IF a < b THEN a ELSE b
Most(a, b) == IF a > b THEN a ELSE b
Start(p) == p * PieceLen
End(p) == Least(Start(p) + PieceLen, Total)
PieceSize(p) == End(p) - Start(p)
BytesOf(ps) == MapThenSumSet(PieceSize, ps)

----------------------------------------------------------------------------
(* PieceLayout.                                                             *)
Touches(p, f) == End(p) > Offset(f) /\ Start(p) < Offset(f) + lens[f]
Segment(p, f) ==
  LET from == Most(Start(p), Offset(f)) - Offset(f)
  IN  [file |-> f, off |-> from, len |-> Least(End(p), Offset(f) + lens[f]) - Offset(f) - from]
Segments(p) ==
  LET fs == SetToSortSeq({f \in Files : Touches(p, f)}, <) IN [k \in DOMAIN fs |-> Segment(p, fs[k])]

WantedMask(s) ==
  IF s = <<>> THEN Pieces ELSE {p \in Pieces : \E f \in Head(s) : Touches(p, f)}
SelectedLength(s) == IF s = <<>> THEN Total ELSE LengthOf(Head(s))

(* files_done_bytes: a cursor leaves the files that end before the piece.   *)
Passed(f, p) == Offset(f) + lens[f] <= Start(p)

CountPiece(acc, p) ==
  LET first == Min({f \in acc.file .. Len(lens) + 1 : f = Len(lens) + 1 \/ ~Passed(f, p)})
      met == {f \in first .. Len(lens) : \A g \in first .. f : Offset(g) < End(p)}
      gain(f) == Most(0, Least(End(p), Offset(f) + lens[f]) - Most(Start(p), Offset(f)))
  IN  [file |-> first, bytes |-> [f \in Files |-> acc.bytes[f] + (IF f \in met THEN gain(f) ELSE 0)]]
FilesDoneBytes(ps) ==
  FoldLeft(CountPiece, [file |-> 1, bytes |-> [f \in Files |-> 0]], SetToSortSeq(ps, <)).bytes

(* engine.rs: done_bytes_of.                                                *)
DoneBytesOf(ps, s) ==
  IF s = <<>> THEN BytesOf(ps)
  ELSE LET per == FilesDoneBytes(ps \cap WantedMask(s)) IN MapThenSumSet(LAMBDA f : per[f], Head(s) \cap Files)

(* task.rs: bt_files_done_bytes and wanted_bitfield, for the file table.    *)
Shown(ps, s) ==
  [f \in Files |-> IF s = <<>> \/ f \in Head(s) THEN FilesDoneBytes(ps)[f] ELSE 0]
WantedBitfield(s) ==
  UNION {Offset(f) \div PieceLen .. Least(Count - 1, (Offset(f) + lens[f] - 1) \div PieceLen) :
           f \in {g \in Head(s) : lens[g] > 0}}

----------------------------------------------------------------------------
Zero == [f \in Files |-> 0]
NoProgress == [checked |-> 0, verified |-> 0, fileChecked |-> Zero, fileVerified |-> Zero]

HasExistingData == \E f \in Files : size[f] > 0

(* What a check should find: pieces whose bytes are all there and right.    *)
Right(p) ==
  /\ Start(p) .. End(p) - 1 \cap bad = {}
  /\ \A k \in DOMAIN Segments(p) : LET s == Segments(p)[k] IN size[s.file] >= s.off + s.len

VerifyTypes ==
  /\ who \in {"none", "engine", "preview"} /\ job \in {"none", "running", "done"}
  /\ mask \subseteq Pieces /\ marks \subseteq Pieces
  /\ \A w \in DOMAIN found : found[w] \subseteq mask /\ Len(cache[w]) <= CacheLimit
  /\ total \in 0 .. Total /\ done \in 0 .. Total

VerifyInit ==
  /\ lens \in Layouts
  /\ \E g \in Files, k \in Absent .. Max({lens[f] : f \in Files}) :
       size = [[f \in Files |-> lens[f]] EXCEPT ![g] = k] \* too short, too long, absent
  /\ bad \in {b \in SUBSET (0 .. Total - 1) : Cardinality(b) <= MaxBad}
  /\ who = "none" /\ mask = {} /\ next = <<>> /\ cache = <<>> /\ found = <<>>
  /\ prog = NoProgress /\ atBegin = {} /\ result = <<{}, {}, {}, {}>>
  /\ job = "none" /\ marks = {} /\ sel = <<>> /\ total = Total /\ done = 0
  /\ runs = 0 /\ shrinks = 0 /\ selects = 0

(* Mutant. *)
ChunkFloor(n) == Count \div n

Chunk(n) == (Count + n - 1) \div n

Crews == IF Count < 4 THEN {1} ELSE {1, Least(Most(2, MaxWorkers), Count)}

Hash(by, pieces, n) ==
  /\ who' = by /\ mask' = pieces /\ atBegin' = {p \in pieces : Right(p)}
  /\ next' = [w \in 1 .. n |-> Least((w - 1) * Chunk(n), Count)]
  /\ cache' = [w \in 1 .. n |-> <<>>] /\ found' = [w \in 1 .. n |-> {}]
  /\ prog' = NoProgress
  /\ runs' = runs + 1

(* verify_existing_data, before the engine has peers.                       *)
Check ==
  /\ who = "none" /\ runs < MaxRuns /\ marks = {} /\ HasExistingData
  /\ \E n \in Crews : Hash("engine", WantedMask(sel), n)
  /\ UNCHANGED <<disk_vars, result, job, engine_vars, shrinks, selects>>

(* preview_bt, while the task is being added: a job that runs, or ran in the *)
(* last 300 s, answers.                                                     *)
Ask ==
  /\ who = "none" /\ runs < MaxRuns /\ marks = {} /\ job = "none" /\ HasExistingData
  /\ \E n \in Crews : Hash("preview", Pieces, n)
  /\ job' = "running"
  /\ UNCHANGED <<disk_vars, result, engine_vars, shrinks, selects>>

Expire ==
  /\ job = "done" /\ job' = "none"
  /\ UNCHANGED <<disk_vars, hash_vars, result, engine_vars, counts>>

(* VerifyFileCache::file, with the length the file had when it was opened.  *)
Opened(c, s) ==
  LET held == SelectInSeq(c, LAMBDA h : h.file = s.file)
      need == s.off + s.len
  IN  CASE held # 0 -> [ok |-> c[held].len >= need, cache |-> c]
        [] held = 0 /\ (size[s.file] = Absent \/ size[s.file] < need) -> [ok |-> FALSE, cache |-> c]
        [] OTHER -> [ok |-> TRUE, cache |->
             Append(IF Len(c) >= CacheLimit THEN Tail(c) ELSE c, [file |-> s.file, len |-> size[s.file]])]

(* read_exact_at fails where the file ends.                                 *)
Reads(s) == size[s.file] >= s.off + s.len

(* read_piece_into: the segments in order, to the first that fails.         *)
ReadPiece(c, p) ==
  FoldLeft(LAMBDA acc, s :
             IF ~acc.ok THEN acc
             ELSE LET o == Opened(acc.cache, s) IN [ok |-> o.ok /\ Reads(s), cache |-> o.cache],
           [ok |-> TRUE, cache |-> c], Segments(p))

RangeEnd(w) == Least(w * Chunk(Len(next)), Count)

RecordSegments(at, p) ==
  [f \in Files |-> at[f] + MapThenSumSet(LAMBDA k : IF Segments(p)[k].file = f THEN Segments(p)[k].len ELSE 0,
                                         DOMAIN Segments(p))]

HashPiece(w) ==
  LET p == next[w]
      read == ReadPiece(cache[w], p)
      ok == read.ok /\ Start(p) .. End(p) - 1 \cap bad = {}
  IN
  /\ p < RangeEnd(w)
  /\ next' = [next EXCEPT ![w] = p + 1]
  /\ IF p \notin mask THEN UNCHANGED <<cache, found, prog>>
     ELSE /\ cache' = [cache EXCEPT ![w] = read.cache]
          /\ found' = IF ok THEN [found EXCEPT ![w] = @ \cup {p}] ELSE found
          /\ prog' = [checked |-> prog.checked + PieceSize(p),
                      verified |-> prog.verified + (IF ok THEN PieceSize(p) ELSE 0),
                      fileChecked |-> RecordSegments(prog.fileChecked, p),
                      fileVerified |-> IF ok THEN RecordSegments(prog.fileVerified, p) ELSE prog.fileVerified]
  /\ UNCHANGED <<who, mask, atBegin, disk_vars, result, job, engine_vars, counts>>

(* The threads are joined.  An engine that found nothing applies nothing.   *)
Finish ==
  LET all == UNION Range(found) IN
  /\ who # "none" /\ \A w \in DOMAIN next : next[w] >= RangeEnd(w)
  /\ result' = <<all, atBegin, {p \in mask : Right(p)}, mask>>
  /\ IF who = "engine" /\ all # {}
     THEN marks' = all /\ done' = DoneBytesOf(all \cap WantedMask(sel), sel)
     ELSE UNCHANGED <<marks, done>>
  /\ job' = IF who = "preview" THEN "done" ELSE job
  /\ who' = "none" /\ next' = <<>> /\ cache' = <<>> /\ found' = <<>> /\ mask' = {} /\ atBegin' = {}
  /\ UNCHANGED <<prog, disk_vars, sel, total, counts>>

----------------------------------------------------------------------------
(* apply_selection, and a piece that is fetched and accepted.               *)
Select(s) ==
  /\ selects < MaxSelects /\ selects' = selects + 1
  /\ sel' = s /\ total' = SelectedLength(s) /\ done' = DoneBytesOf(marks \cap WantedMask(s), s)
  /\ UNCHANGED <<disk_vars, hash_vars, result, job, marks, runs, shrinks>>

Accept(p) ==
  /\ who = "none" /\ p \in WantedMask(sel) \ marks
  /\ marks' = marks \cup {p} /\ done' = DoneBytesOf(marks' \cap WantedMask(sel), sel)
  /\ UNCHANGED <<disk_vars, hash_vars, result, job, sel, total, counts>>

(* Another program truncates a file.                                        *)
Shrink(f) ==
  /\ who # "none" /\ shrinks < MaxShrinks /\ size[f] > 0
  /\ size' = [size EXCEPT ![f] = @ - 1] /\ shrinks' = shrinks + 1
  /\ UNCHANGED <<lens, bad, hash_vars, result, job, engine_vars, runs, selects>>

VerifyNext ==
  \/ Check \/ Ask \/ Expire \/ Finish
  \/ \E w \in DOMAIN next : HashPiece(w)
  \/ \E p \in Pieces : Accept(p)
  \/ \E s \in {<<>>} \cup {<<fs>> : fs \in SUBSET Files} : Select(s)
  \/ \E f \in Files : Shrink(f)

VerifySpec == VerifyInit /\ [][VerifyNext]_verifyVars

----------------------------------------------------------------------------
(* "损坏/空洞片仍会重新下载": however the pieces are shared out and whatever    *)
(* the handles kept, a check finds every wanted piece that is right to the  *)
(* end and none that was wrong from the beginning, and what it reports of   *)
(* each file adds up to it.                                                 *)
VerifyExact ==
  /\ result[3] \subseteq result[1] /\ result[1] \subseteq result[2]
  /\ (who = "none" /\ result[4] # {}) =>
       /\ prog.checked = BytesOf(result[4]) /\ prog.verified = BytesOf(result[1])
       /\ prog.fileVerified = FilesDoneBytes(result[1])

(* "进度 >100%", "文件之和 = 已完成片覆盖字节，口径自洽": the four ways of        *)
(* counting a selection's progress agree, progress never passes the total,  *)
(* and reaches it just when every wanted piece is there.                    *)
ProgressExact ==
  LET wants == WantedMask(sel) IN
  /\ done <= total
  /\ done = total <=> wants \subseteq marks
  /\ LET shown == Shown(marks, sel) IN MapThenSumSet(LAMBDA f : shown[f], Files) = done
  /\ sel # <<>> => WantedBitfield(sel) = wants

=============================================================================
