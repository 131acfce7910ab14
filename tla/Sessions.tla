------------------------------ MODULE Sessions ------------------------------
(***************************************************************************)
(* The session table and the path table of session-rs/src/session.rs.      *)
(*                                                                         *)
(* A session is a logical identity that outlives its transport paths.  A   *)
(* hello on a new path migrates it: the path in use until then drains and  *)
(* is later retired.  Records whose sequence number is below the floor of  *)
(* the session are replays.  Both tables are hash maps and are kept here   *)
(* as functions on the ids they hold.                                      *)
(*                                                                         *)
(* Expiry (record_activity, quiescence, the reaper) decides only when the  *)
(* host terminates a session, and is left out; so is last_ack_stream_seq,  *)
(* which every migration hands on and nothing reads.                       *)
(***************************************************************************)
EXTENDS Integers, Functions

CONSTANTS
  Session,      \* session ids
  Path,         \* path ids
  MaxSeq        \* bound: the largest stream_seq

StreamSeq == 0..MaxSeq

VARIABLES
  sessions,     \* SessionTable
  paths         \* PathTable

sessionVars == <<sessions, paths>>

\* prev is prev_path_id: the set of the one path that drains, or empty.
SessionEntry == [active : Path, prev : SUBSET Path, floor : 0..MaxSeq + 1]

PathEntry == [session : Session, state : {"Active", "Draining", "Closed"}]

Live(s) == s \in DOMAIN sessions

\* HashMap::insert.
Inserted(table, id, entry) ==
  [x \in DOMAIN table \cup {id} |-> IF x = id THEN entry ELSE table[x]]

\* The entry of path p, when there is one, gets the state st.
Marked(p, st) == [q \in DOMAIN paths |->
                    IF q = p THEN [paths[q] EXCEPT !.state = st] ELSE paths[q]]

-----------------------------------------------------------------------------
\* SessionTable::create with PathTable::create, which always go together.
CreateSession(s, p, floor) ==
  /\ sessions' = Inserted(sessions, s, [active |-> p, prev |-> {}, floor |-> floor])
  /\ paths' = Inserted(paths, p, [session |-> s, state |-> "Active"])

\* Mutant: the path in use until now is not marked.
MigratePath_undrained(s, p) ==
  /\ paths' = Inserted(paths, p, [session |-> s, state |-> "Active"])
  /\ sessions' = [sessions EXCEPT ![s].active = p, ![s].prev = {sessions[s].active}]

\* Mutant: the path in use until now is marked last.
MigratePath_marked_last(s, p) ==
  LET old == sessions[s].active
      new == Inserted(paths, p, [session |-> s, state |-> "Active"])
  IN  /\ paths' = [q \in DOMAIN new |->
                     IF q = old THEN [new[q] EXCEPT !.state = "Draining"] ELSE new[q]]
      /\ sessions' = [sessions EXCEPT ![s].active = p, ![s].prev = {old}]

\* migrate_path: the new entry replaces the marked one if both are the same.
MigratePath(s, p) ==
  LET old == sessions[s].active
  IN  /\ paths' = Inserted(Marked(old, "Draining"), p, [session |-> s, state |-> "Active"])
      /\ sessions' = [sessions EXCEPT ![s].active = p, ![s].prev = {old}]

RetireDrainingPath(s) ==
  /\ paths' = [q \in DOMAIN paths |->
                 IF q \in sessions[s].prev THEN [paths[q] EXCEPT !.state = "Closed"]
                 ELSE paths[q]]
  /\ sessions' = [sessions EXCEPT ![s].prev = {}]

\* terminate leaves the paths to its caller, who removes them.
TerminateSession(s) ==
  /\ sessions' = Restrict(sessions, DOMAIN sessions \ {s})
  /\ paths' = Restrict(paths, {q \in DOMAIN paths : paths[q].session # s})

IsSeqValid(s, n) == Live(s) /\ n >= sessions[s].floor

AckSeq(s, n) ==
  /\ sessions' = [sessions EXCEPT ![s].floor = IF n + 1 > @ THEN n + 1 ELSE @]
  /\ UNCHANGED paths

-----------------------------------------------------------------------------
SessionsTypeOK ==
  /\ DOMAIN sessions \subseteq Session /\ DOMAIN paths \subseteq Path
  /\ \A s \in DOMAIN sessions : sessions[s] \in SessionEntry
  /\ \A p \in DOMAIN paths : paths[p] \in PathEntry
=============================================================================
