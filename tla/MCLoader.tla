------------------------------ MODULE MCLoader ------------------------------
(***************************************************************************)
(* Files of six bytes with one or two loadable segments, and perhaps a     *)
(* header of another type, that is empty or repeats part of a segment.     *)
(* Segments may lie over the end of the file or of memory, and over argc.  *)
(***************************************************************************)
EXTENDS LoaderSafety

MCBytes == <<1, 2, 3, 4, 5, 6>>

Segments ==
  [type : {"LOAD"}, offset : {0, 1, 4}, vaddr : {0, 1, 2, 5, MemBytes - 1},
   filesz : {0, 1, 2, 3}]

Empty == [type |-> "OTHER", offset |-> 0, vaddr |-> 0, filesz |-> 0]
Parts(h) == {[h EXCEPT !.type = "OTHER", !.filesz = n] : n \in 0 .. h.filesz}

Disjoint(g, h) ==
  g.vaddr + g.filesz <= h.vaddr \/ h.vaddr + h.filesz <= g.vaddr

HeaderLists ==
  LET pairs == {p \in Segments \X Segments : Disjoint(p[1], p[2])} IN
  {<<>>}
    \cup pairs
    \cup {<<p[1], Empty, p[2]>> : p \in pairs}
    \cup UNION {{<<h, part>> : part \in Parts(h)} : h \in Segments}
    \cup UNION {{<<part, h>> : part \in Parts(h)} : h \in Segments}

MCFiles ==
  [is_elf : {TRUE}, class : {32}, entry : {1}, phdrs : HeaderLists,
   bytes : {MCBytes}]
    \cup {[is_elf |-> FALSE, class |-> 32, entry |-> 0, phdrs |-> <<>>,
           bytes |-> MCBytes]}
=============================================================================
