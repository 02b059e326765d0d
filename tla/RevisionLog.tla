----------------------------- MODULE RevisionLog ----------------------------
(***************************************************************************)
(* What the users of a repository see of its files, with nothing of locks, *)
(* processes or passes: each file is a log of revisions to which a check-in *)
(* appends one, in a single step, and only for an author who has worked     *)
(* from all that the log holds; tags are only added; and a working file is  *)
(* brought up to the end of the log.  A user who was overtaken at a file is *)
(* promised nothing about that file, and everybody else still is.           *)
(*                                                                         *)
(* RcsAccess.tla (src/rcs.cpp, src/commit.cpp, src/tag.cpp) implements this *)
(* specification.                                                           *)
(***************************************************************************)
EXTENDS Naturals, Sequences

CONSTANTS
    User,    \* the users
    File,    \* the files
    Mark     \* what tag and admin commands set

VARIABLES
    revs,    \* the authors of the revisions of each file, the oldest first
    marks,   \* the marks of each file
    base,    \* the revisions that each user's working file is based on
    overtaken  \* the users and files to whom nothing is promised

logVars == <<revs, marks, base>>

\* The users have checked out what there is.
LogInit ==
    /\ marks = [f \in File |-> {}]
    /\ base = [u \in User |-> revs]
    /\ overtaken = {}

\* An author who is up to date adds a revision; the working file is
\* registered later.
CheckIn(u, f) ==
    /\ base[u][f] = revs[f]
    /\ revs' = [revs EXCEPT ![f] = Append(@, u)]
    /\ UNCHANGED <<marks, base>>

SetMark(f, m) ==
    /\ marks' = [marks EXCEPT ![f] = @ \union {m}]
    /\ UNCHANGED <<revs, base>>

\* A working file gets the head, by an update or after a check-in.
GetHead(u, f) ==
    /\ base' = [base EXCEPT ![u][f] = revs[f]]
    /\ UNCHANGED <<revs, marks>>

\* A user who was overtaken may do anything to that file, and to nothing else.
Astray(u, f) ==
    /\ <<u, f>> \in overtaken
    /\ \A g \in File \ {f} : revs'[g] = revs[g] /\ marks'[g] = marks[g]
    /\ \A v \in User, g \in File : <<v, g>> # <<u, f>> => base'[v][g] = base[v][g]

LogNext ==
    \E u \in User, f \in File :
        \/ CheckIn(u, f) \/ GetHead(u, f) \/ Astray(u, f)
        \/ \E m \in Mark : SetMark(f, m)

LogSpec == LogInit /\ [][LogNext]_logVars
=============================================================================
