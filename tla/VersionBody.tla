---- MODULE VersionBody ----
(***************************************************************************)
(* The node version word of include/version.h (node_version64_body) and    *)
(* the pure operations on it.  In the code the word is one 64-bit atomic:  *)
(* two 29-bit counters and six one-bit flags.  The counters wrap, so they  *)
(* are kept modulo VPeriod (2^29 in the code).                             *)
(***************************************************************************)
EXTENDS Naturals

CONSTANT VPeriod    \* number of values of vinsert_delete and of vsplit

ASSUME VPeriodAssumption == VPeriod \in Nat /\ VPeriod >= 2

Counter == 0 .. VPeriod - 1

Body == [vinsert_delete     : Counter,
         vsplit             : Counter,
         locked             : BOOLEAN,
         inserting_deleting : BOOLEAN,
         splitting          : BOOLEAN,
         deleted            : BOOLEAN,
         root               : BOOLEAN,
         border             : BOOLEAN]

\* init(): every flag down, both counters zero.
InitBody == [vinsert_delete |-> 0, vsplit |-> 0, locked |-> FALSE,
             inserting_deleting |-> FALSE, splitting |-> FALSE,
             deleted |-> FALSE, root |-> FALSE, border |-> FALSE]

\* A plausible slip in inc: the field is not kept to its width.
IncNoWrap(c) == c + 1

\* ++ on a 29-bit field.
inc(c) == IF c + 1 = VPeriod THEN 0 ELSE c + 1

inc_vinsert_delete(b) == [b EXCEPT !.vinsert_delete = inc(b.vinsert_delete)]
set_inserting_deleting(b, tf) == [b EXCEPT !.inserting_deleting = tf]
set_splitting(b, tf) == [b EXCEPT !.splitting = tf]

\* A plausible slip in set_deleted: a deleted node is made no root, too.
SetDeletedDropsRoot(b, tf) == [b EXCEPT !.deleted = tf, !.root = FALSE]

set_deleted(b, tf) == [b EXCEPT !.deleted = tf]
set_root(b, tf) == [b EXCEPT !.root = tf]
set_border(b, tf) == [b EXCEPT !.border = tf]
set_locked(b, tf) == [b EXCEPT !.locked = tf]

\* The word unlock() installs: a raised dirty bit counts once and is cleared.
unlocked(b) ==
    [b EXCEPT !.vinsert_delete     = IF b.inserting_deleting THEN inc(@) ELSE @,
              !.vsplit             = IF b.splitting THEN inc(@) ELSE @,
              !.inserting_deleting = FALSE,
              !.splitting          = FALSE,
              !.locked             = FALSE]

\* The words get_stable_version() returns.
stable(b) == ~b.inserting_deleting /\ ~b.locked /\ ~b.splitting

\* The part of two versions readers compare before they trust what they read.
SameCounters(b, c) == /\ b.vinsert_delete = c.vinsert_delete
                      /\ b.vsplit = c.vsplit
====
