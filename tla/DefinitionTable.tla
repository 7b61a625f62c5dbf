-------------------------- MODULE DefinitionTable --------------------------
(***************************************************************************)
(* What a family of parsers promises about its entity declarations: the    *)
(* first declaration of a name is the one that counts.  A name may be      *)
(* reserved while its declaration is read; a reservation is completed by   *)
(* that declaration or withdrawn.  A family begins empty, or as a copy of  *)
(* another at one moment, and is independent of it from then on.           *)
(***************************************************************************)
CONSTANTS Families, Names, Parsers,
          Absent     \* no entry for a name

VARIABLES used,      \* the families that exist
          table      \* of each family, the entry of each name

States == {"bare",      \* reserved
           "named",     \* reserved, with the system identifier
           "value",     \* the entity has a replacement text
           "external"}  \* it has a system identifier

\* An entry and the declaration it is from: the parser and its count.
IsEntry(entry) == entry # Absent /\ entry.by \in Parsers /\ entry.state \in States

Reserved(entry) == entry # Absent /\ entry.state \in {"bare", "named"}

\* The states of one declaration, in order.
Later(state) == CASE state = "bare" -> {"named", "value"}
                  [] state = "named" -> {"external"}
                  [] OTHER -> {}

\* In a copy, a name whose declaration has no identifier yet has an empty value.
Copied(entry) ==
  IF entry # Absent /\ entry.state = "bare" THEN [entry EXCEPT !.state = "value"] ELSE entry

NoEntries == [n \in Names |-> Absent]

Init == used = {} /\ table = [f \in Families |-> NoEntries]

Found(f) ==
  /\ f \notin used /\ used' = used \cup {f}
  /\ \/ UNCHANGED table
     \/ \E g \in used : table' = [table EXCEPT ![f] = [n \in Names |-> Copied(table[g][n])]]

Change(f, n, entry) ==
  /\ f \in used /\ UNCHANGED used /\ table'[f][n] = entry
  /\ table' = [table EXCEPT ![f][n] = entry]

\* A name gets an entry: it is reserved, declared, or imported.
Add(f, n) ==
  /\ table[f][n] = Absent
  /\ IsEntry(table'[f][n]) /\ Change(f, n, table'[f][n])

Continue(f, n) ==
  /\ Reserved(table[f][n])
  /\ \E state \in Later(table[f][n].state) : Change(f, n, [table[f][n] EXCEPT !.state = state])

Withdraw(f, n) == Reserved(table[f][n]) /\ Change(f, n, Absent)

Next == \E f \in Families :
          Found(f) \/ \E n \in Names : Add(f, n) \/ Continue(f, n) \/ Withdraw(f, n)

Spec == Init /\ [][Next]_<<used, table>>
=============================================================================
