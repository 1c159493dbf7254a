------------------------------ MODULE CheatPage ------------------------------
(***************************************************************************)
(* What the page says of a cheat: a state request (handle_api_cheats_state *)
(* of cr_api.c) reads the game's memory entry by entry, without the apply  *)
(* lock, ranks what it finds, asks the engine's tables one after the other *)
(* and offers to switch the cheat on, off, or neither.  Meanwhile the      *)
(* engine may switch this cheat or a rival that shares byte ranges with it *)
(* (CheatApply has the engine in full; here it writes, and records).       *)
(*                                                                         *)
(* A byte range holds the cheat's own "on" or "off" bytes, a jump of       *)
(* another cheat, other bytes, or cannot be read.  A cheat whose on and    *)
(* off bytes are the same is left out.                                     *)
(***************************************************************************)
EXTENDS FiniteSets, Naturals

CONSTANTS PageEntries, \* the cheat's memory entries
          CaveEntries, \* those of 16 bytes or more
          HookEntries, \* those whose on bytes are a jump
          Shared,      \* those the rival writes too
          NotProbed    \* the request reads no memory

(* A cheat that writes nothing is never probed as on or off: left out.     *)
ASSUME PageAssumption ==
    /\ PageEntries # {} /\ IsFiniteSet(PageEntries) /\ PageEntries \subseteq Nat
    /\ CaveEntries \cup HookEntries \cup Shared \subseteq PageEntries

VARIABLES cheat,   \* [known: entries whose off bytes are the game's own, master,
                   \*  suspect, safeguards]
          ranges,  \* what each entry's range holds
          engine,  \* [doing, left: entries still to write]; g_cheat_applying
          records, \* the tables: [this: "none", "on" or "off", rival: BOOLEAN]
          request  \* [at, left, seen, state, quiet: no write since it began]
pageVars == <<cheat, ranges, engine, records, request>>

Bytes == {"on", "off", "jump", "other", "unreadable"}
Findings == {"unseen", "on", "off", "foreign", "offvalue", "unknown", "mismatch"}
Unseen == [e \in PageEntries |-> "unseen"]
NoPageRequest == [at |-> "idle", left |-> {}, seen |-> Unseen, state |-> NotProbed, quiet |-> TRUE]
Disturbed == [request EXCEPT !.quiet = FALSE]
Ready == [doing |-> "ready", left |-> {}]

PageInit ==
    /\ cheat \in [known : {PageEntries, {}, HookEntries}, master : {"none", "pending", "active"},
                  suspect : BOOLEAN, safeguards : BOOLEAN]
    /\ ranges \in {[e \in PageEntries |-> IF e \in odd THEN v ELSE "off"] :
                    odd \in SUBSET PageEntries, v \in {"other", "unreadable"}}
    /\ engine = Ready
    /\ records = [this |-> "none", rival |-> FALSE]
    /\ request = NoPageRequest

(***************************************************************************)
(* The engine: g_cheat_applying, the write pass, the record.               *)
(***************************************************************************)
EngineStarts(doing) ==
    /\ engine = Ready
    /\ doing = "on" => records.this # "on" /\ \A e \in PageEntries : ranges[e] # "unreadable"
    /\ doing = "off" => records.this = "on"
    /\ doing = "rival" => ~records.rival /\ records.this # "on"
    /\ engine' = [doing |-> doing, left |-> IF doing = "rival" THEN Shared ELSE PageEntries]
    /\ request' = Disturbed
    /\ UNCHANGED <<cheat, ranges, records>>

EngineWrites(e) ==
    /\ e \in engine.left
    /\ ranges' = [ranges EXCEPT ![e] = CASE engine.doing = "on" -> "on"
                                       [] engine.doing = "off" -> "off"
                                       [] OTHER -> IF e \in HookEntries THEN "jump" ELSE "other"]
    /\ engine' = [engine EXCEPT !.left = @ \ {e}]
    /\ request' = Disturbed
    /\ UNCHANGED <<cheat, records>>

EngineRecords ==
    /\ engine # Ready /\ engine.left = {}
    /\ records' = IF engine.doing = "rival" THEN [records EXCEPT !.rival = TRUE]
                  ELSE [this |-> engine.doing, rival |-> records.rival /\ ~cheat.safeguards]
    /\ engine' = Ready
    /\ request' = Disturbed
    /\ UNCHANGED <<cheat, ranges>>

(***************************************************************************)
(* The request.  Memory is read only of the running title, past the        *)
(* loading window, with an image base and a live process, and when the     *)
(* engine was not applying at this one moment.                             *)
(***************************************************************************)
Blocked(running, matches, loading, based, alive) ==
    CASE ~running -> "game_not_running"
      [] running /\ ~matches -> "process_not_found"
      [] running /\ matches /\ loading -> "game_loading"
      [] running /\ matches /\ ~loading /\ ~based -> "base_not_ready"
      [] OTHER -> IF ~alive \/ engine # Ready THEN "process_not_found" ELSE NotProbed

RequestStarts(running, matches, loading, based, alive) ==
    /\ request.at = "idle"
    /\ LET blocked == Blocked(running, matches, loading, based, alive)
       IN  request' = [at |-> IF blocked = NotProbed THEN "module" ELSE "suspects",
                       left |-> PageEntries, seen |-> Unseen, state |-> blocked, quiet |-> TRUE]
    /\ UNCHANGED <<cheat, ranges, engine, records>>

(* The cheat's own module, then its mastercode, are looked up first.       *)
FindModule(loaded) ==
    /\ request.at = "module"
    /\ request' = IF loaded THEN [request EXCEPT !.at = "read"]
                  ELSE [request EXCEPT !.at = "suspects", !.state = "process_not_found"]
    /\ UNCHANGED <<cheat, ranges, engine, records>>

(* Bytes that are recognised as neither on nor off are looked for again    *)
(* where the mastercode may have moved the entry to: anything may be read  *)
(* there.                                                                  *)
Readings(e) ==
    IF cheat.master = "none" \/ ranges[e] \in {"on", "unreadable"}
       \/ (e \in cheat.known /\ ranges[e] = "off")
    THEN {ranges[e]} ELSE {ranges[e], "on", "off", "other", "jump"}

Finding(e, v) ==
    IF v = "on" THEN "on"
    ELSE IF e \notin cheat.known THEN IF v = "off" THEN "offvalue" ELSE "unknown"
    ELSE IF v = "off" THEN "off"
    ELSE IF e \in CaveEntries \/ (e \in HookEntries /\ v = "jump") THEN "foreign"
    ELSE IF cheat.master = "pending" THEN "unknown" ELSE "mismatch"

ReadEntry(e, v) ==
    /\ request.at = "read" /\ e \in request.left
    /\ \A f \in request.left : e <= f
    /\ request' =
         IF v = "unreadable" THEN [request EXCEPT !.at = "suspects", !.state = "address_unresolved"]
         ELSE [request EXCEPT !.left = @ \ {e}, !.seen[e] = Finding(e, v)]
    /\ UNCHANGED <<cheat, ranges, engine, records>>

(* Mutant of Ranked: formats that do not tell the original bytes are       *)
(* forgotten.                                                              *)
RankedVerified(seen) ==
    LET Count(kinds) == Cardinality({e \in PageEntries : seen[e] \in kinds})
        total == Cardinality(PageEntries)
    IN  CASE Count({"on"}) > 0 /\ Count({"on", "foreign"}) = total -> "on"
          [] Count({"mismatch"}) = total -> "mismatch"
          [] Count({"off", "foreign"}) = total -> "off"
          [] Count({"unknown"}) > 0 /\ Count({"mismatch", "on"}) = 0 -> "baseline_unknown"
          [] OTHER -> "mixed"

Ranked(seen) ==
    LET Count(kinds) == Cardinality({e \in PageEntries : seen[e] \in kinds})
        total == Cardinality(PageEntries)
    IN  CASE Count({"on"}) = total -> "on"
          [] Count({"on"}) \in 1 .. total - 1 /\ Count({"on", "foreign"}) = total -> "on"
          [] Count({"mismatch"}) = total -> "mismatch"
          [] Count({"off", "foreign"}) = total -> "off"
          [] Count({"offvalue"}) > 0 /\ Count({"off", "foreign", "offvalue"}) = total ->
               "off_unverified"
          [] Count({"unknown"}) > 0 /\ Count({"mismatch", "on"}) = 0 -> "baseline_unknown"
          [] OTHER -> "mixed"

Rank ==
    /\ request.at = "read" /\ request.left = {}
    /\ request' = [request EXCEPT !.at = "disabled", !.state = Ranked(request.seen)]
    /\ UNCHANGED <<cheat, ranges, engine, records>>

(* Where the bytes do not tell, the tables of this session do.             *)
AskDisabled ==
    /\ request.at = "disabled"
    /\ request' = [request EXCEPT !.at = "enabled",
                     !.state = IF @ = "baseline_unknown" /\ records.this = "off"
                               THEN "off_unverified" ELSE @]
    /\ UNCHANGED <<cheat, ranges, engine, records>>

AskEnabled ==
    /\ request.at = "enabled"
    /\ request' = [request EXCEPT !.at = "suspects",
                     !.state = IF @ = "baseline_unknown" /\ records.this = "on"
                               THEN "on_unverified" ELSE @]
    /\ UNCHANGED <<cheat, ranges, engine, records>>

Probed == {"on", "off", "mixed", "mismatch", "baseline_unknown", "off_unverified",
           "on_unverified", "address_unresolved"}
AskSuspects ==
    /\ request.at = "suspects"
    /\ request' = IF cheat.suspect THEN [request EXCEPT !.at = "answer", !.state = "crash_suspect"]
                  ELSE [request EXCEPT !.at = IF request.state \in Probed THEN "rivals" ELSE "answer"]
    /\ UNCHANGED <<cheat, ranges, engine, records>>

AskRivals ==
    /\ request.at = "rivals"
    /\ request' = [request EXCEPT !.at = "answer",
                     !.state = IF /\ Shared # {} /\ cheat.safeguards /\ records.rival
                                  /\ @ \in {"off", "off_unverified", "mixed", "baseline_unknown",
                                            "mismatch"}
                               THEN "conflict" ELSE @]
    /\ UNCHANGED <<cheat, ranges, engine, records>>

Offer(state) ==
    CASE state \in {"on", "on_unverified", "mixed"} -> "disable"
      [] state \in {"off", "off_unverified", "baseline_unknown", "mismatch",
                    "address_unresolved", "conflict"} -> "enable"
      [] OTHER -> "none"

Answer ==
    /\ request.at = "answer"
    /\ request' = NoPageRequest
    /\ UNCHANGED <<cheat, ranges, engine, records>>

PageNext ==
    \/ \E doing \in {"on", "off", "rival"} : EngineStarts(doing)
    \/ \E e \in PageEntries : EngineWrites(e)
    \/ EngineRecords
    \/ \E running, matches, loading, based, alive \in BOOLEAN :
         RequestStarts(running, matches, loading, based, alive)
    \/ \E loaded \in BOOLEAN : FindModule(loaded)
    \/ \E e \in PageEntries : \E v \in Readings(e) : ReadEntry(e, v)
    \/ Rank \/ AskDisabled \/ AskEnabled \/ AskSuspects \/ AskRivals \/ Answer

-----------------------------------------------------------------------------
(* The types of the memory, the tables and the request.                    *)
PageTypeOK ==
    /\ cheat.known \subseteq PageEntries /\ cheat.master \in {"none", "pending", "active"}
    /\ ranges \in [PageEntries -> Bytes]
    /\ engine \in [doing : {"ready", "on", "off", "rival"}, left : SUBSET PageEntries]
    /\ records \in [this : {"none", "on", "off"}, rival : BOOLEAN]
    /\ request.left \subseteq PageEntries /\ request.seen \in [PageEntries -> Findings]
    /\ request.quiet \in BOOLEAN

(* While the engine rests, the button is the opposite of what the memory   *)
(* and the tables say: a cheat with all its bytes in place is offered to   *)
(* be switched off, one with none in place and not recorded as on is       *)
(* offered to be switched on, whatever the format tells of its original    *)
(* bytes and however often the tables were asked in between.  Entries the  *)
(* mastercode may have moved are excepted, where other bytes than the      *)
(* cheat's are read (handle_api_cheats_state, cr_api.c).                   *)
OffersOpposite ==
    request.at = "answer" /\ request.quiet /\ request.state \in Probed \cup {"conflict"} =>
        /\ (\A e \in PageEntries : ranges[e] = "on") => Offer(request.state) = "disable"
        /\ (\A e \in PageEntries : ranges[e] = "off" /\ Readings(e) = {"off"})
           /\ records.this # "on" => Offer(request.state) = "enable"
=============================================================================
