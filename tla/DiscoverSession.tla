--------------------------- MODULE DiscoverSession ---------------------------
(***************************************************************************)
(* The search for a value and its writer, one command of the tool at a     *)
(* time: scan, narrow, pick, watch-write or capture, extract-aob, emit.    *)
(* What one command leaves for the next is the session file.               *)
(*                                                                         *)
(*   src/crates/discover/src/session.rs, scan.rs, predicate.rs, pages.rs   *)
(*   src/crates/discover/src/handlers/scan.rs, narrow.rs, pick.rs,         *)
(*       watch_write.rs, capture.rs, extract_aob.rs, emit.rs               *)
(*                                                                         *)
(* A value is an integer, or NaN.  The session keeps the last values as    *)
(* doubles: above Exact only every second one has a double of its own, and *)
(* NaN is written as null, which no later command can read.  The user      *)
(* knows what the wanted value did on the screen, and says so.             *)
(***************************************************************************)
EXTENDS Integers

CONSTANTS
    Places,   \* addresses of the game's writable memory
    Wanted,   \* the one that holds what the user is after
    Largest,  \* bound: the largest value
    Exact     \* the largest value up to which doubles are exact (2^53)

NaN == -1
NoPlace == "no place"

ASSUME DiscoverAssumption ==
    Wanted \in Places /\ NoPlace \notin Places /\ {Largest, Exact} \subseteq Nat

VARIABLES
    kind,    \* of the session: "narrow" (up to 32 bits), "wide" (64 bits) or "float"
    mem,     \* the values of the mapped places
    file,    \* the session: its state, candidates with last values, what was picked and captured
    seen,    \* what the wanted value was at the last scan
    emitted  \* of the signature: where its pattern and its original bytes come from

discVars == <<kind, mem, file, seen, emitted>>

Double(v) == IF kind = "wide" /\ v > Exact THEN v - (v % 2) ELSE v

\* The values of some of the places.
Contents == UNION {[mapped -> NaN .. Largest] : mapped \in SUBSET Places}

DiscTypeOK ==
    /\ kind \in {"narrow", "wide", "float"}
    /\ mem \in Contents
    /\ file \in [at : {"absent", "saved", "unreadable"}, last : Contents,
                picked : Places \cup {NoPlace}, captured : Places \cup {NoPlace},
                pattern : Places \cup {NoPlace}]
    /\ seen \in NaN .. Largest
    /\ emitted \in [pattern : Places \cup {NoPlace}, bytes : Places \cup {NoPlace}]

Values == {v \in NaN .. Largest : v = NaN => kind = "float"}
NoFile == [at |-> "absent", last |-> << >>, picked |-> NoPlace, captured |-> NoPlace, pattern |-> NoPlace]

DiscInit ==
    /\ kind \in {"narrow", "wide", "float"}
    /\ mem \in [Places -> Values] /\ mem[Wanted] # NaN
    /\ file = NoFile /\ seen = 0 /\ emitted = [pattern |-> NoPlace, bytes |-> NoPlace]

-----------------------------------------------------------------------------
(* Predicates: Predicate::matches, of a value now and the one before. *)

Real(v) == v # NaN

\* approx_eq is false of NaN, and the orders are too.
Same(v, w) == Real(v) /\ Real(w) /\ v = w
Above(v, w) == Real(v) /\ Real(w) /\ v > w

Matches(pred, now, before) ==
    CASE pred.op = "equal" -> Same(now, pred.arg)
      [] pred.op = "not_equal" -> ~Same(now, pred.arg)
      [] pred.op = "gt" -> Above(now, pred.arg)
      [] pred.op = "ge" -> Above(now, pred.arg) \/ Same(now, pred.arg)
      [] pred.op = "lt" -> Above(pred.arg, now)
      [] pred.op = "le" -> Above(pred.arg, now) \/ Same(now, pred.arg)
      [] pred.op = "changed" -> ~Same(now, before)
      [] pred.op = "unchanged" -> Same(now, before)
      [] pred.op = "increased" -> Above(Double(now), Double(before))
      [] pred.op = "decreased" -> Above(Double(before), Double(now))
      [] pred.op = "increased_by" -> Same(Double(now) - Double(before), Double(pred.arg))
      [] pred.op = "decreased_by" -> Same(Double(before) - Double(now), Double(pred.arg))

Predicates ==
    [op : {"changed", "unchanged", "increased", "decreased"}, arg : {0}]
    \cup [op : {"equal", "not_equal", "gt", "ge", "lt", "le", "increased_by", "decreased_by"},
          arg : 0 .. Largest]

\* What the user says is true of the wanted value, as the game shows it.
Truthful(pred) ==
    LET now == mem[Wanted] d == now - seen
    IN  CASE pred.op = "increased_by" -> d = pred.arg
          [] pred.op = "decreased_by" -> -d = pred.arg
          [] pred.op = "increased" -> d > 0
          [] pred.op = "decreased" -> d < 0
          [] OTHER -> Matches(pred, now, seen)

-----------------------------------------------------------------------------
(* The commands. *)

Saved(session) ==
    file' = [session EXCEPT !.at =
        IF \E a \in DOMAIN session.last : session.last[a] = NaN THEN "unreadable" ELSE "saved"]

\* A new scan replaces the session; regions that cannot be read are skipped.
Scan(first) ==
    LET found == {a \in DOMAIN mem : first = "unknown_initial" \/ Same(mem[a], mem[Wanted])}
    IN  /\ Saved([NoFile EXCEPT !.last = [a \in found |-> Double(mem[a])]])
        /\ seen' = mem[Wanted]
        /\ UNCHANGED <<kind, mem, emitted>>

\* A deliberate error: the next narrow compares with the values of the first scan.
Narrow_KeepsValues(pred) ==
    /\ file.at = "saved" /\ Truthful(pred)
    /\ LET kept == {a \in DOMAIN file.last \cap DOMAIN mem : Matches(pred, mem[a], file.last[a])}
       IN  Saved([file EXCEPT !.last = [a \in kept |-> file.last[a]]])
    /\ seen' = mem[Wanted] /\ UNCHANGED <<kind, mem, emitted>>

\* Every candidate is read again; one that is unmapped is dropped.
Narrow(pred) ==
    /\ file.at = "saved" /\ Truthful(pred)
    /\ LET kept == {a \in DOMAIN file.last \cap DOMAIN mem : Matches(pred, mem[a], file.last[a])}
       IN  Saved([file EXCEPT !.last = [a \in kept |-> Double(mem[a])]])
    /\ seen' = mem[Wanted] /\ UNCHANGED <<kind, mem, emitted>>

Pick(a) ==
    /\ file.at = "saved" /\ a \in DOMAIN file.last
    /\ Saved([file EXCEPT !.last = [b \in {a} |-> file.last[b]], !.picked = a])
    /\ UNCHANGED <<kind, mem, seen, emitted>>

\* resolve_address: what is given, or was picked, or is alone.
WatchedPlaces ==
    IF file.picked # NoPlace THEN {file.picked}
    ELSE {a \in DOMAIN file.last : DOMAIN file.last = {a}}

\* watch-write and capture keep the bytes of the instruction that writes a.
Capture(a) ==
    /\ file.at = "saved"
    /\ Saved([file EXCEPT !.captured = a])
    /\ UNCHANGED <<kind, mem, seen, emitted>>

ExtractAob ==
    /\ file.at = "saved" /\ file.captured # NoPlace
    /\ Saved([file EXCEPT !.pattern = file.captured])
    /\ UNCHANGED <<kind, mem, seen, emitted>>

Emit ==
    /\ file.at = "saved" /\ file.pattern # NoPlace
    /\ emitted' = [pattern |-> file.pattern, bytes |-> file.captured]
    /\ UNCHANGED <<kind, mem, file, seen>>

\* session rm
RemoveSession == file' = NoFile /\ UNCHANGED <<kind, mem, seen, emitted>>

GameChanges(a) ==
    /\ a \in DOMAIN mem
    /\ \E v \in Values : (a = Wanted => v # NaN) /\ mem' = [mem EXCEPT ![a] = v]
    /\ UNCHANGED <<kind, file, seen, emitted>>

Unmaps(a) ==
    /\ a \in DOMAIN mem \ {Wanted}
    /\ mem' = [b \in DOMAIN mem \ {a} |-> mem[b]]
    /\ UNCHANGED <<kind, file, seen, emitted>>

DiscNext ==
    \/ \E first \in {"equal", "unknown_initial"} : Scan(first)
    \/ \E pred \in Predicates : Narrow(pred)
    \/ \E a \in Places : Pick(a) \/ GameChanges(a) \/ Unmaps(a)
    \/ \E a \in WatchedPlaces : Capture(a)
    \/ ExtractAob \/ Emit \/ RemoveSession

DiscSpec == DiscInit /\ [][DiscNext]_discVars

-----------------------------------------------------------------------------

\* A search in one game never loses what the user is after: as long as nothing was
\* picked and every predicate is true of it, it is among the candidates, with the
\* value it had at the last look.  (64-bit values above 2^53 are the exception.)
TargetKept ==
    file.at = "saved" /\ file.picked = NoPlace /\ kind # "wide" =>
        Wanted \in DOMAIN file.last /\ file.last[Wanted] = seen
=============================================================================
