------------------------------ MODULE BtMagnet ------------------------------
(***************************************************************************)
(* How a magnet task gets its metadata (engine.rs): the pieces of metadata *)
(* its sessions collect together, who has asked for which, what liars do   *)
(* to it, the installation by the session that completes it, and run(),    *)
(* which waits for it and looks at the files on the disk.                  *)
(***************************************************************************)
EXTENDS Integers, FiniteSets

CONSTANTS
    Session,    \* sessions, which may begin again when they are over
    Honest,     \* those that send what was asked
    Size,       \* true number of metadata pieces
    Sizes,      \* numbers that may be declared (up to MAX_METADATA_SIZE)
    Pipe,       \* METADATA_PIPELINE
    MaxJoins,   \* bound: sessions of dishonest peers
    NeedSelect  \* whether the task waits for the user to select files

MagnetAssumption ==
    /\ Size \in Sizes /\ Sizes \subseteq Nat \ {0} /\ Pipe \in Nat \ {0}
    /\ MaxJoins \in Nat /\ NeedSelect \in BOOLEAN /\ Honest \subseteq Session

VARIABLES
    accum,      \* MetadataAccum: expected_size, pieces, and which are false
    requested,  \* MetadataAccum.requested
    link,       \* the sessions: where each stands, what it waits for
    have,       \* the peer's bitfield: not come, put aside, or applied
    store,      \* the piece store is visible
    meta,       \* has_metadata
    installs,   \* installations begun
    onDisk,     \* a data file has a length
    verify,     \* verify_existing and verifying
    main,       \* where run() stands
    joins,      \* sessions of dishonest peers begun
    unopened    \* history: an installation could not open its store

magnetVars == <<accum, requested, link, have, store, meta, installs, onDisk, verify,
                main, joins, unopened>>

NoAccum == [size |-> 0, got |-> {}, lies |-> {}]
NoLink == [pc |-> "off", asked |-> {}]

MagnetInit ==
    /\ accum = NoAccum /\ requested = {}
    /\ link = [s \in Session |-> NoLink]
    /\ have = [s \in Session |-> "none"]
    /\ store = FALSE /\ meta = FALSE /\ installs = 0
    /\ onDisk \in BOOLEAN
    /\ verify = [asked |-> FALSE, on |-> FALSE]
    /\ main = "fetch" /\ joins = 0 /\ unopened = FALSE

Stands(s, pc) == link[s].pc = pc
Goes(s, pc) == link' = [link EXCEPT ![s].pc = pc]

(* next_metadata_piece, up to n times: pieces nobody has asked for. *)
NextPieces(acc, req, n) ==
    LET free == {i \in 0..(acc.size - 1) : i \notin req \cup acc.got}
        k == IF Cardinality(free) < n THEN Cardinality(free) ELSE n
    IN {S \in SUBSET free :
          /\ Cardinality(S) = k
          /\ \A i \in S, j \in free \ S : i < j}

(* The session is over: pieces asked for and not received are free again,  *)
(* those that other sessions asked for too.                                *)
Released == requested \cap accum.got

----------------------------------------------------------------------------
(* A session is registered; with the metadata there it downloads at once,  *)
(* else it asks for piece 0, whoever else has, and for others.             *)
Begin(s) ==
    /\ Stands(s, "off") /\ (s \in Honest \/ joins < MaxJoins)
    /\ joins' = IF s \in Honest THEN joins ELSE joins + 1
    /\ have' = [have EXCEPT ![s] = "none"]
    /\ IF meta
       THEN Goes(s, "run") /\ UNCHANGED requested
       ELSE LET first == {0} \ accum.got
            IN \E more \in NextPieces(accum, requested \cup first,
                                      Pipe - Cardinality(first)) :
                 /\ requested' = requested \cup first \cup more
                 /\ link' = [link EXCEPT ![s] = [pc |-> "top", asked |-> first \cup more]]
    /\ UNCHANGED <<accum, store, meta, installs, onDisk, verify, main, unopened>>

(* run_metadata_exchange: the top of its loop, then it waits for a message. *)
Top(s) ==
    /\ Stands(s, "top")
    /\ Goes(s, IF meta THEN "run" ELSE "read")
    /\ UNCHANGED <<accum, requested, have, store, meta, installs, onDisk,
                   verify, main, joins, unopened>>

(* What handle_metadata_payload makes of a piece: another size than the    *)
(* expected one empties what was collected.                                *)
Collected(i, size, true) ==
    LET kept == IF accum.size = size THEN accum ELSE [NoAccum EXCEPT !.size = size]
    IN [kept EXCEPT !.got = @ \cup {i}, !.lies = IF true THEN @ \ {i} ELSE @ \cup {i}]

Whole(acc) == acc.got = 0..(acc.size - 1)

(* A piece, which completes nothing yet: the session asks for the next. *)
Piece(s, i, size, true) ==
    /\ Stands(s, "read") /\ i < size
    /\ s \in Honest => i \in link[s].asked /\ size = Size /\ true
    /\ LET acc == Collected(i, size, true)
           req == IF accum.size = size THEN requested ELSE {}
           asked == link[s].asked \ {i}
       IN /\ ~Whole(acc)
          /\ accum' = acc
          /\ IF meta
             THEN requested' = req /\ Goes(s, "run")
             ELSE \E next \in NextPieces(acc, req, IF Cardinality(asked) < Pipe THEN 1 ELSE 0) :
                    /\ requested' = req \cup next
                    /\ link' = [link EXCEPT ![s] = [pc |-> "top", asked |-> asked \cup next]]
    /\ UNCHANGED <<have, store, meta, installs, onDisk, verify, main, joins, unopened>>

(* The last piece, and the hash is right: this session installs. *)
Completes(s, i, size, true) ==
    /\ Stands(s, "read") /\ i < size
    /\ s \in Honest => i \in link[s].asked /\ size = Size /\ true
    /\ LET acc == Collected(i, size, true)
       IN /\ Whole(acc) /\ acc.lies = {} /\ size = Size
          /\ accum' = acc
          /\ requested' = IF accum.size = size THEN requested ELSE {}
    /\ Goes(s, "install")
    /\ UNCHANGED <<have, store, meta, installs, onDisk, verify, main, joins, unopened>>

(* The last piece, and it is not the torrent: everything is forgotten, and *)
(* this session is over.                                                   *)
Poisoned(s, i, size, true) ==
    /\ Stands(s, "read") /\ i < size
    /\ s \in Honest => i \in link[s].asked /\ size = Size /\ true
    /\ LET acc == Collected(i, size, true)
       IN Whole(acc) /\ (acc.lies # {} \/ size # Size)
    /\ accum' = NoAccum /\ requested' = {}
    /\ link' = [link EXCEPT ![s] = NoLink]
    /\ UNCHANGED <<have, store, meta, installs, onDisk, verify, main, joins, unopened>>

(* The session ends: a reject, a timeout, the peer's or the engine's will. *)
Breaks(s) ==
    /\ link[s].pc \in {"top", "read", "run"}
    /\ requested' = IF Stands(s, "run") THEN requested ELSE Released
    /\ link' = [link EXCEPT ![s] = NoLink]
    /\ UNCHANGED <<accum, have, store, meta, installs, onDisk, verify, main,
                   joins, unopened>>

(* The peer's bitfield, before the metadata or after it: it is put aside   *)
(* while the number of pieces is unknown.                                  *)
Bitfield(s) ==
    /\ link[s].pc \in {"read", "run"} /\ have[s] = "none"
    /\ have' = [have EXCEPT ![s] = IF store THEN "applied" ELSE "aside"]
    /\ link' = [link EXCEPT ![s].pc = IF @ = "read" THEN "top" ELSE @]
    /\ UNCHANGED <<accum, requested, store, meta, installs, onDisk, verify,
                   main, joins, unopened>>

----------------------------------------------------------------------------
(* install_metadata opens the store, over the one that may be there; files *)
(* found are to be verified, unless the bitmap of an earlier run tells.    *)
(* Only a task whose files are selected makes files.                       *)
OpenStore(s) ==
    /\ Stands(s, "install")
    /\ store' = TRUE /\ installs' = installs + 1
    /\ verify' = IF onDisk /\ ~NeedSelect THEN [asked |-> TRUE, on |-> TRUE] ELSE verify
    /\ onDisk' = (onDisk \/ ~NeedSelect)
    /\ Goes(s, "opened")
    /\ UNCHANGED <<accum, requested, have, meta, main, joins, unopened>>

(* ... or fails: the files cannot be opened or given their length.  The    *)
(* session ends and what was collected stays, whole, so that nothing is    *)
(* left to ask for: only a piece that was asked for before, or one nobody  *)
(* asked for, completes it again.                                          *)
OpenFails(s) ==
    /\ Stands(s, "install")
    /\ installs' = installs + 1 /\ unopened' = TRUE
    /\ onDisk' \in {onDisk, onDisk \/ ~NeedSelect}
    /\ requested' = Released
    /\ link' = [link EXCEPT ![s] = NoLink]
    /\ UNCHANGED <<accum, have, store, meta, verify, main, joins>>

(* ... and makes the metadata known, and puts what was put aside in place. *)
SetMeta(s) ==
    /\ Stands(s, "opened")
    /\ meta' = TRUE
    /\ Goes(s, "known")
    /\ UNCHANGED <<accum, requested, have, store, installs, onDisk, verify,
                   main, joins, unopened>>

(* Mutant: apply_pending_peer_bitfields is forgotten. *)
KeepAside(s) ==
    /\ Stands(s, "known")
    /\ Goes(s, "run")
    /\ UNCHANGED <<accum, requested, have, store, meta, installs, onDisk,
                   verify, main, joins, unopened>>

ApplyAside(s) ==
    /\ Stands(s, "known")
    /\ have' = [t \in Session |-> IF have[t] = "aside" THEN "applied" ELSE have[t]]
    /\ Goes(s, "run")
    /\ UNCHANGED <<accum, requested, store, meta, installs, onDisk, verify,
                   main, joins, unopened>>

----------------------------------------------------------------------------
(* run(): fetch_metadata waits for the metadata, or gives up, cancelled or *)
(* at its deadline.                                                        *)
Fetched ==
    /\ main = "fetch" /\ meta
    /\ main' = IF verify.asked THEN "verify" ELSE "loop"
    /\ verify' = IF verify.asked THEN [verify EXCEPT !.asked = FALSE]
                 ELSE [verify EXCEPT !.on = FALSE]
    /\ UNCHANGED <<accum, requested, link, have, store, meta, installs, onDisk,
                   joins, unopened>>

GivesUp ==
    /\ main = "fetch" /\ main' = "over"
    /\ UNCHANGED <<accum, requested, link, have, store, meta, installs, onDisk,
                   verify, joins, unopened>>

(* verify_existing_data is over; nobody calls it again. *)
Verified ==
    /\ main = "verify" /\ main' = "loop"
    /\ verify' = [verify EXCEPT !.on = FALSE]
    /\ UNCHANGED <<accum, requested, link, have, store, meta, installs, onDisk,
                   joins, unopened>>

Work(s) ==
    \/ Begin(s) \/ Top(s) \/ OpenStore(s) \/ OpenFails(s) \/ SetMeta(s) \/ ApplyAside(s)
    \/ Bitfield(s)

Answer(s, true) ==
    \E size \in Sizes : \E i \in 0..(size - 1) :
        Piece(s, i, size, true) \/ Completes(s, i, size, true) \/ Poisoned(s, i, size, true)

MagnetNext ==
    \/ \E s \in Session : \/ Work(s) \/ Breaks(s)
                          \/ \E true \in BOOLEAN : Answer(s, true)
    \/ Fetched \/ GivesUp \/ Verified

MagnetSpec == MagnetInit /\ [][MagnetNext]_magnetVars

(* Sessions go on; one with nothing to expect is dropped by its timeout;   *)
(* an honest peer is found again, and answers, if not in this session then *)
(* in a later one.  Where a store could not be opened nothing else may be  *)
(* left to happen, and the deadline comes.                                 *)
MagnetFairness ==
    /\ WF_magnetVars(Fetched) /\ WF_magnetVars(Verified)
    /\ \A s \in Session :
         /\ WF_magnetVars(Begin(s) /\ s \in Honest) /\ SF_magnetVars(Top(s))
         /\ WF_magnetVars(OpenStore(s) \/ OpenFails(s)) /\ WF_magnetVars(SetMeta(s))
         /\ WF_magnetVars(ApplyAside(s))
         /\ WF_magnetVars(Breaks(s) /\ (s \notin Honest \/ link[s].asked = {}))
    /\ \A s \in Honest : SF_magnetVars(Answer(s, TRUE))
    /\ WF_magnetVars(GivesUp /\ unopened)

MagnetFairSpec == MagnetSpec /\ MagnetFairness

----------------------------------------------------------------------------
MagnetTypes ==
    /\ accum.size \in {0} \cup Sizes /\ accum.got \subseteq 0..(accum.size - 1)
    /\ \A s \in Session : /\ link[s].pc \in {"off", "top", "read", "install", "opened",
                                             "known", "run"}
                          /\ have[s] \in {"none", "aside", "applied"}
    /\ {store, meta, onDisk, unopened} \subseteq BOOLEAN /\ installs \in Nat
    /\ main \in {"fetch", "verify", "loop", "over"}

(* A bitfield that came before the metadata is not lost: every session     *)
(* that downloads has it in place, though it is read, put aside, applied   *)
(* by another session's installation and looked up in turn                 *)
(* (apply_pending_peer_bitfields: else a peer with no pieces to give).     *)
BitfieldsApplied ==
    (\A s \in Session : link[s].pc \notin {"opened", "known"})
    => \A s \in Session : Stands(s, "run") => have[s] # "aside"

(* Whatever liars send and however sessions break off, an honest peer      *)
(* gets the metadata across: no piece stays requested from nobody          *)
(* (release_unreceived_metadata_pieces) and nothing false stays collected. *)
MetadataArrives == <>(meta \/ main = "over")

(* install_metadata runs once (as note_metadata_phase_message says of it). *)
InstalledOnce == installs <= 1
=============================================================================
