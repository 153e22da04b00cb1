----------------------------- MODULE FlowTable ------------------------------
(***************************************************************************)
(* Flow_Table.cc: the entries of a multimap in iteration order, each with  *)
(* a match and the output port of its only action.                         *)
(***************************************************************************)
EXTENDS OpenFlow

Entry == [match : Match, outport : Port]

\* m1 is the match looked for, m2 that of an entry, w the wildcards of the
\* entry.
flow_fields_match(m1, m2, w) ==
  /\ "in_port" \in w \/ m1.in_port = m2.in_port
  /\ "eth_type" \in w \/ m1.eth_type = m2.eth_type
  /\ "eth_src" \in w \/ m1.eth_src = m2.eth_src
  /\ "eth_dst" \in w \/ m1.eth_dst = m2.eth_dst

Hits(table, m, i) ==
  flow_fields_match(m, table[i].match, table[i].match.wildcards)

lookup(table, m) == \E i \in DOMAIN table : Hits(table, m, i)

\* The position of the first entry that matches m, where there is one.
FirstHit(table, m) ==
  CHOOSE i \in DOMAIN table :
    Hits(table, m, i) /\ \A j \in 1..(i - 1) : ~Hits(table, m, j)

returnAction(table, m) == table[FirstHit(table, m)].outport

\* The comparison of the multimap.  It is not an order: it is symmetric.
ltmatch(m1, m2) ==
  /\ m1.in_port # m2.in_port
  /\ m1.eth_type # m2.eth_type
  /\ m1.eth_src # m2.eth_src
  /\ m1.eth_dst # m2.eth_dst
  /\ m1.wildcards = m2.wildcards

\* e inserted into table as its i-th element.
Splice(table, i, e) ==
  [k \in 1..(Len(table) + 1) |->
     IF k < i THEN table[k] ELSE IF k = i THEN e ELSE table[k - 1]]

\* The tables that addEntry can leave.  The search for the insertion point
\* walks down a balanced tree whose shape the model does not keep: it ends
\* between two neighbours after going right at the first (the new key does
\* not compare less) and left at the second (it does).  Where ltmatch orders
\* nothing before anything this is the end of the table.
addEntry(table, e) ==
  {Splice(table, i, e) :
     i \in {k \in 1..(Len(table) + 1) :
              /\ k > 1 => ~ltmatch(e.match, table[k - 1].match)
              /\ k <= Len(table) => ltmatch(e.match, table[k].match)}}

\* Mutant of deleteEntry: it erases every entry that matches.
DeleteAllHits(table, m) ==
  SelectSeq(table,
            LAMBDA e : ~flow_fields_match(m, e.match, e.match.wildcards))

\* deleteEntry erases the first entry that matches, if there is one.
deleteEntry(table, m) ==
  IF lookup(table, m)
  THEN LET i == FirstHit(table, m)
       IN  [k \in 1..(Len(table) - 1) |->
              IF k < i THEN table[k] ELSE table[k + 1]]
  ELSE table
=============================================================================
