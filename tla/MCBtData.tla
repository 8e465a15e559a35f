------------------------------ MODULE MCBtData ------------------------------
(* The data of a BT task, for TLC: its storage without I/O errors, and with *)
(* errors and pieces of three sizes; the check of what is on disk; the      *)
(* sessions with its peers; a uTP stream.  A behaviour is of one of them,   *)
(* `part`; the others stand still in an initial state of their own, so that *)
(* one run checks them all.                                                 *)
EXTENDS PieceStore, TLC

CONSTANTS
    Parts,          \* those to check
    a, b,           \* files
    Addr, Sess, NoSess

(* Three pieces over two files, the second piece in both. *)
TwoFiles == 0 :> {a} @@ 1 :> {a, b} @@ 2 :> {b}
Mixed == 0 :> 3 @@ 1 :> 2 @@ 2 :> 1
ShortFirst == 0 :> 1 @@ 1 :> 1 @@ 2 :> 2

Symmetry == Permutations(Peer)

VARIABLES
    part,
    pending, table, cell, fails, banned, banning, punch, halted,
    ep, first, net,
    lens, size, bad, who, mask, next, handles, found, prog, atBegin, result, job,
    marks, picked, total, passed, runs, shrinks, selects

Failing == INSTANCE PieceStore WITH PieceLen <- Mixed, Op <- {"crash", "ioerr"}

VE == INSTANCE Verify WITH
    PieceLen <- 2, Layouts <- {<<1, 6>>, <<2, 0, 1>>}, MaxBad <- 1, MaxWorkers <- 3,
    CacheLimit <- 1, MaxRuns <- 1, MaxShrinks <- 0, MaxSelects <- 1,
    cache <- handles, sel <- picked, done <- passed

PE == INSTANCE BtPeers WITH
    Cell <- Sess, NoCell <- NoSess, Room <- 2, Cap <- 2, MaxDials <- 1, MaxPunch <- 1

(* Data both ways; an end that closes and an application that is slow.      *)
Sending(x, y) == [e \in {"a", "b"} |-> IF e = "a" THEN x ELSE y]
UT == INSTANCE UtpStream WITH
    Width <- 16, Starts <- {3}, Writes <- Sending(1, 2), Flight <- 2, Reorder <- 2,
    RecvRoom <- 2, MaxSyn <- 1, MaxRto <- 2, InTransit <- 2, Lossy <- TRUE, Closing <- {},
    Slow <- FALSE
UC == INSTANCE UtpStream WITH
    Width <- 16, Starts <- {3}, Writes <- Sending(1, 0), Flight <- 2, Reorder <- 2,
    RecvRoom <- 2, MaxSyn <- 2, MaxRto <- 2, InTransit <- 2, Lossy <- TRUE, Closing <- {"b"},
    Slow <- TRUE

ASSUME PartConstants ==
    VE!VerifyAssumption /\ PE!PeersAssumption /\ UT!UtpAssumption /\ UC!UtpAssumption

verify_vars == <<lens, size, bad, who, mask, next, handles, found, prog, atBegin, result, job,
                 marks, picked, total, passed, runs, shrinks, selects>>
peer_vars == <<pending, table, cell, fails, banned, banning, punch, halted>>
utp_vars == <<ep, first, net>>
allVars == <<part, vars, verify_vars, peer_vars, utp_vars>>

PartsInit ==
    /\ part \in Parts
    /\ Init /\ (part \notin {"storage", "failing"} => sel = File)
    /\ IF part = "verify" THEN TRUE
       ELSE lens = <<2, 0, 1>> /\ size = <<2, 0, 1>> /\ bad = {}
    /\ VE!VerifyInit
    /\ PE!PeersInit
    /\ UT!UtpInit

PartsNext ==
    \/ part = "storage" /\ Next /\ UNCHANGED <<part, verify_vars, peer_vars, utp_vars>>
    \/ part = "failing" /\ Failing!Next /\ UNCHANGED <<part, verify_vars, peer_vars, utp_vars>>
    \/ part = "verify" /\ VE!VerifyNext /\ UNCHANGED <<part, vars, peer_vars, utp_vars>>
    \/ part = "peers" /\ PE!PeersNext /\ UNCHANGED <<part, vars, verify_vars, utp_vars>>
    \/ part = "utp" /\ UT!UtpNext /\ UNCHANGED <<part, vars, verify_vars, peer_vars>>
    \/ part = "closing" /\ UC!UtpNext /\ UNCHANGED <<part, vars, verify_vars, peer_vars>>

PartsSpec == PartsInit /\ [][PartsNext]_allVars

----------------------------------------------------------------------------
(* Without I/O errors a finished download is all on disk (finish).          *)
Completed == part = "storage" => CompleteOnDisk

(* What the pieces of P take of the limit of the cache. *)
Units(P) == UNION {{p} \X (1 .. PieceLen[p]) : p \in P}

(* write_cache_bytes is the total of what the cache holds, and no piece is  *)
(* cached twice, so that its subtractions never wrap (flush_write_cache,    *)
(* evict_to_limit, write_piece).                                            *)
CacheAccounted ==
    /\ \A i, j \in DOMAIN cache : cache[i] = cache[j] => i = j
    /\ bytes = Cardinality(Units(Elems(cache)))

(* write_cache_bytes is what the cache holds, and disk-cache bounds it      *)
(* whenever the store's lock is free (evict_to_limit).                      *)
CacheSound == part = "storage" => CacheBounded /\ CacheAccounted

(* The check of existing data finds the pieces that are right and no other, *)
(* and the ways of counting a selection's progress agree.                   *)
VerifyExact == part = "verify" => VE!VerifyExact /\ VE!ProgressExact

(* The session of a peer is in the table under its address as long as it    *)
(* runs, so that its choking, its requests and a ban reach it; and whoever  *)
(* runs a punched connection waits for a session that will end the wait.    *)
SessionsListed == part = "peers" => PE!SessionsListed /\ PE!HostsWait

(* A uTP stream arrives as it was written, and nothing else is acknowledged.*)
StreamKept == part \in {"utp", "closing"} => UT!StreamKept
=============================================================================
