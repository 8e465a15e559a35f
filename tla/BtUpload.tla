------------------------------ MODULE BtUpload ------------------------------
(***************************************************************************)
(* Whom a BT task uploads to (engine.rs): decide_choking, which every      *)
(* session runs by a timer of its own over the state of all of them, the   *)
(* optimistic slot they share, and the immediate unchoke of a finished     *)
(* task.                                                                   *)
(***************************************************************************)
EXTENDS Integers, FiniteSets, SequencesExt

CONSTANTS
    Guest,      \* peers that may ask for pieces
    NoGuest,    \* nobody has the optimistic slot
    Regular     \* regular_unchoke_count

UploadAssumption ==
    IsFiniteSet(Guest) /\ NoGuest \notin Guest /\ Regular \in Nat \ {0}

VARIABLES
    turn,       \* connected peers, the one unchoked longest ago first (last_unchoke)
    keen,       \* those with peer_interested
    choked,     \* those with we_choked
    lucky,      \* optimistic_unchoke: who, and whether since this window
    round,      \* the window's number, modulo 3
    seeding,    \* finished
    idle        \* no peer has a download rate

uploadVars == <<turn, keen, choked, lucky, round, seeding, idle>>

NoLuck == [who |-> NoGuest, fresh |-> FALSE]
Connected == ToSet(turn)

UploadInit ==
    /\ turn = <<>> /\ keen = {} /\ choked = {} /\ lucky = NoLuck
    /\ round = 0 /\ seeding = FALSE /\ idle = TRUE

(* register_peer, and the end of a session. *)
Arrive(g) ==
    /\ g \notin Connected
    /\ turn' = Append(turn, g) /\ choked' = choked \cup {g}
    /\ UNCHANGED <<keen, lucky, round, seeding, idle>>

Depart(g) ==
    /\ g \in Connected
    /\ turn' = SelectSeq(turn, LAMBDA h : h # g)
    /\ keen' = keen \ {g} /\ choked' = choked \ {g}
    /\ UNCHANGED <<lucky, round, seeding, idle>>

(* Interested: a finished task unchokes at once (maybe_unchoke_peer), which *)
(* leaves last_unchoke as it was.                                          *)
Asks(g) ==
    /\ g \in Connected \ keen
    /\ keen' = keen \cup {g}
    /\ choked' = IF seeding THEN choked \ {g} ELSE choked
    /\ UNCHANGED <<turn, lucky, round, seeding, idle>>

NotInterested(g) ==
    /\ g \in keen
    /\ keen' = keen \ {g}
    /\ UNCHANGED <<turn, choked, lucky, round, seeding, idle>>

(* The interested peers that come first: those served longest ago when     *)
(* nothing is downloaded, those with the best rates otherwise.             *)
Best == LET asking == SelectSeq(turn, LAMBDA g : g \in keen)
        IN ToSet(SubSeq(asking, 1, IF Len(asking) < Regular THEN Len(asking) ELSE Regular))

Regulars ==
    IF idle THEN {Best} ELSE {R \in SUBSET keen : Cardinality(R) = Cardinality(Best)}

(* The optimistic slot is given anew when its holder is gone, and by the   *)
(* first session of every third window.                                    *)
Rolls == lucky.who \notin Connected \/ (round = 0 /\ ~lucky.fresh)

Rolled(R) ==
    IF ~Rolls THEN {lucky}
    ELSE LET waiting == (keen \cap choked) \ R
         IN IF waiting = {} THEN {NoLuck} ELSE [who : waiting, fresh : {TRUE}]

(* decide_choking in the session of g: its timer goes off every ten        *)
(* seconds, or later when the session is held up, the ticks missed being   *)
(* skipped.                                                                *)
Decide(g) ==
    /\ g \in Connected
    /\ \E R \in Regulars : \E l \in Rolled(R) :
         /\ lucky' = l
         /\ IF g \in R \cup {l.who}
            THEN /\ choked' = choked \ {g}
                 /\ turn' = IF g \in choked
                            THEN Append(SelectSeq(turn, LAMBDA h : h # g), g)
                            ELSE turn
            ELSE choked' = choked \cup {g} /\ turn' = turn
    /\ UNCHANGED <<keen, round, seeding, idle>>

(* Ten seconds are over, whoever has decided in them. *)
NextWindow ==
    /\ round' = (round + 1) % 3
    /\ lucky' = [lucky EXCEPT !.fresh = FALSE]
    /\ UNCHANGED <<turn, keen, choked, seeding, idle>>

(* Rates come and go while the task downloads; finish() ends that. *)
Flow ==
    /\ ~seeding /\ idle' = ~idle
    /\ UNCHANGED <<turn, keen, choked, lucky, round, seeding>>

Finished ==
    /\ ~seeding /\ seeding' = TRUE /\ idle' = TRUE
    /\ UNCHANGED <<turn, keen, choked, lucky, round>>

UploadNext ==
    \/ \E g \in Guest : Arrive(g) \/ Depart(g) \/ Asks(g) \/ NotInterested(g) \/ Decide(g)
    \/ NextWindow \/ Flow \/ Finished

UploadSpec == UploadInit /\ [][UploadNext]_uploadVars

(* Timers go off, and getrandom picks, sooner or later, everyone who waits *)
(* when the slot is given anew.  Whoever has it has it for thirty seconds, *)
(* and is not held up for all of them every time.                          *)
UploadFairness ==
    /\ WF_uploadVars(NextWindow)
    /\ \A g \in Guest :
         /\ WF_uploadVars(Decide(g))
         /\ SF_uploadVars(Decide(g) /\ lucky.who = g /\ ~Rolls)
         /\ SF_uploadVars(\E h \in Guest : Decide(h) /\ round = 0 /\ Rolls /\ lucky'.who = g)

UploadFairSpec == UploadSpec /\ UploadFairness

----------------------------------------------------------------------------
UploadTypes ==
    /\ Connected \subseteq Guest /\ IsInjective(turn)
    /\ keen \subseteq Connected /\ choked \subseteq Connected
    /\ lucky \in [who : Guest \cup {NoGuest}, fresh : BOOLEAN]
    /\ round \in 0..2 /\ {seeding, idle} \subseteq BOOLEAN

(* With no rates to choose by, and once nobody comes, goes or changes his  *)
(* mind, nobody who asks is choked for ever: the sessions decide one by    *)
(* one, on a state that changes between their decisions, and yet the       *)
(* optimistic slot reaches each of them and holds until its own session    *)
(* has seen it (decide_choking: the lucky peer's own tick really unchokes  *)
(* it).                                                                    *)
AskersServed ==
    <>[][idle /\ keen' = keen /\ Connected' = Connected]_uploadVars
    => \A g \in Guest : []<>(g \in keen => g \notin choked)

(* A task that seeds gives its regular slots in turn, to whom was served   *)
(* longest ago (decide_choking: sorted by last_unchoke, so that upload     *)
(* goes round fairly).                                                     *)
SlotsRotate ==
    \A g \in Guest : (seeding /\ g \in keen) ~> (g \in Best \/ g \notin keen)
=============================================================================
