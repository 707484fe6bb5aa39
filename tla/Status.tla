------------------------------- MODULE Status -------------------------------
(***************************************************************************)
(* What the updater tells the EFIS and the picker of a pack: the answer of *)
(* `pyefis-data status` and `catalog`, and of the status document that an  *)
(* update leaves, computed from a manifest, the inventory and the date the *)
(* process started with.  The processes are those of module Updater.       *)
(***************************************************************************)
EXTENDS Updater

CONSTANT Soon   \* days of notice before an edition expires (7)

ASSUME SoonAssumption == Soon \in Nat

\* Mutant: the first entry of the id, whatever is installed.
InstEntryFirst(m, pid, r) ==
    {e \in ForId(m, pid) : r.cur # None /\ \A f \in ForId(m, pid) : e.cycle <= f.cycle}

\* The manifest's entry of the installed edition, if the manifest still has it.
InstEntry(m, pid, r) == {e \in ForId(m, pid) : r.cur # None /\ e.cycle = r.cur}

\* Days until the installed edition expires are at most n.
ExpiresWithin(m, pid, r, dy, n) ==
    \E e \in InstEntry(m, pid, r) : e.exp # None /\ e.exp - dy <= n

\* Mutant: an expired edition is one that expires soon.
ClassifyLeniently(m, pid, r, dy) ==
    LET cur == Select(m, pid, dy)
    IN  IF ForId(m, pid) = {} THEN "UNKNOWN"
        ELSE IF r.cur = None THEN "MISSING"
        ELSE IF cur \notin {None, r.cur} THEN IF r.staged = cur THEN "STAGED" ELSE "UPDATE"
        ELSE IF ExpiresWithin(m, pid, r, dy, Soon) THEN "EXPIRES"
        ELSE "CURRENT"

\* Status of a pack with inventory record r on day dy; the order of the cases matters.
Classify(m, pid, r, dy) ==
    LET cur == Select(m, pid, dy)
    IN  IF ForId(m, pid) = {} THEN "UNKNOWN"
        ELSE IF r.cur = None THEN "MISSING"
        ELSE IF ExpiresWithin(m, pid, r, dy, -1) THEN "EXPIRED"
        ELSE IF cur \notin {None, r.cur} THEN IF r.staged = cur THEN "STAGED" ELSE "UPDATE"
        ELSE IF ExpiresWithin(m, pid, r, dy, Soon) THEN "EXPIRES"
        ELSE "CURRENT"

Severity(status) ==
    CASE status \in {"CURRENT", "STAGED"} -> "none"
      [] status \in {"EXPIRES", "MISSING", "UNKNOWN"} -> "white"
      [] status \in {"UPDATE", "EXPIRED"} -> "amber"

\* The manifest an answer is computed from: the fetched one, or the cached one.
AnswersFrom(p) == IF pc[p] = "recache" THEN man[p] ELSE cache

\* The process answers, and what it says of a pack.
Answers(p) == StatusDone(p) /\ AnswersFrom(p) # 0
Says(p, pid) == Classify(Catalog[AnswersFrom(p)], pid, inv[p][pid], day[p])
Asked(p) == Tracked(Catalog[AnswersFrom(p)], want[p])
-----------------------------------------------------------------------------
\* An edition that status or catalog calls installed is what pyEfis opens: the
\* inventory it reads is the drive's, after any picks, imports and updates that
\* were not cut short.  (core.py _status_for)
StatusIsTrue ==
    [][\A p \in Procs : Answers(p) =>
          \A pid \in Asked(p) : inv[p][pid].cur # None =>
             Live(Dir[pid]) = [id |-> pid, cycle |-> inv[p][pid].cur, ok |-> TRUE]]_vars

\* "a manual Update on the device flips amber -> green": after an update without
\* errors no pack that has an edition for the day is amber or missing, so update and
\* status agree on which edition that is.  (cli.py:265-267)
GreenAfterUpdate ==
    [][\A p \in Procs : SaveInventory(p) /\ failed[p] = {} =>
          \A pid \in TrackedBy(p) : CurFor(p, pid) # None =>
             Classify(Manifest(p), pid, inv[p][pid], day[p]) \in {"CURRENT", "EXPIRES"}]_vars

\* "expired/out-of-window is amber": an installed edition whose window does not hold
\* the day is amber.  Two exceptions are the code's: the catalog no longer lists the
\* edition, and the very day it expires, when no day is left but none is missing
\* either, which is white, or not even that with the next edition staged.
\* (core.py:101-108, _classify)
OutOfWindowIsAmber ==
    [][\A p \in Procs : Answers(p) =>
          \A pid \in Asked(p) : \A e \in InstEntry(Catalog[AnswersFrom(p)], pid, inv[p][pid]) :
             ~Covers(e, day[p]) /\ day[p] # e.exp => Severity(Says(p, pid)) = "amber"]_vars
=============================================================================
