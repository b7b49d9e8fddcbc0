---------------------------- MODULE ProcessView ----------------------------
(***************************************************************************)
(* What psroot-procshim makes of the system's process list.                *)
(*                                                                         *)
(* The list NtQuerySystemInformation returns is a buffer of records linked *)
(* by their NextEntryOffset, here a sequence of entries [pid, ppid, ...]   *)
(* whose offsets are counted in entries: 1 to the following entry, 0 in    *)
(* the last one.  The operators take the list as the kernel gave it; a PID *)
(* is in it at most once, and the first entry is Idle (PID 0).             *)
(***************************************************************************)
EXTENDS Integers, Sequences, SequencesExt

Idle == 0
System == 4

-----------------------------------------------------------------------------
(* hook_nt_query_system_information: the list a query shows.               *)

(* One pass of the closure: the entries in order, each adding its PID when *)
(* its parent is allowed by then.                                          *)
AddChildren(list, allowed) ==
  FoldLeft(LAMBDA S, e : IF e.ppid \in S THEN S \cup {e.pid} ELSE S,
           allowed, list)

RECURSIVE CloseOver(_, _)
CloseOver(list, allowed) ==
  LET more == AddChildren(list, allowed)
  IN  IF more = allowed THEN allowed ELSE CloseOver(list, more)

build_allowed_pids(list, root) == CloseOver(list, {root}) \cup {Idle}

(* Entry i is left in place, and becomes the last one kept, or is jumped   *)
(* over by the last one kept; an entry with none before it only loses its  *)
(* PID.                                                                    *)
Keep(buf, i) == [buf EXCEPT !.prev = i]

\* Mutant: the offset jumped over is not added to the one before it.
UnlinkOverwrites(buf, i) ==
  IF buf.prev = 0
    THEN [buf EXCEPT !.pid[i] = Idle]
    ELSE [buf EXCEPT !.next[buf.prev] = buf.next[i]]

Unlink(buf, i) ==
  IF buf.prev = 0
    THEN [buf EXCEPT !.pid[i] = Idle]
    ELSE [buf EXCEPT !.next[buf.prev] =
            IF buf.next[i] = 0 THEN 0 ELSE @ + buf.next[i]]

filter_process_list(list, allowed) ==
  FoldLeft(LAMBDA buf, i : IF list[i].pid \in allowed THEN Keep(buf, i)
                                                      ELSE Unlink(buf, i),
           [ next |-> [i \in DOMAIN list |-> IF i = Len(list) THEN 0 ELSE 1],
             pid  |-> [i \in DOMAIN list |-> list[i].pid],
             prev |-> 0 ],
           [i \in DOMAIN list |-> i])

(* What the caller reads when it follows the offsets from the first entry. *)
RECURSIVE ReadFrom(_, _)
ReadFrom(buf, i) ==
  <<buf.pid[i]>> \o
    (IF buf.next[i] = 0 THEN <<>> ELSE ReadFrom(buf, i + buf.next[i]))

Shown(list, root) ==
  ReadFrom(filter_process_list(list, build_allowed_pids(list, root)), 1)

-----------------------------------------------------------------------------
(* hook_nt_open_process: whether a PID may be opened.                      *)

ParentOf(list, pid) == { e.ppid : e \in { x \in Range(list) : x.pid = pid } }

RECURSIVE is_descendant_of_root(_, _, _, _)
is_descendant_of_root(list, current, root, visited) ==
  \/ current = root
  \/ /\ current # Idle
     /\ current \notin visited
     /\ \E ppid \in ParentOf(list, current) :
          is_descendant_of_root(list, ppid, root, visited \cup {current})

MayOpen(list, pid, root) ==
  \/ pid \in {Idle, System, root}
  \/ is_descendant_of_root(list, pid, root, {})
=============================================================================
