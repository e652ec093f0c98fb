--------------------------- MODULE MCCsTypeFactory ---------------------------
(* Texts another program may have written: a cycle, a reference out of     *)
(* range on either side, one that is malformed, and a null entry.          *)
EXTENDS CsTypeFactory

Entry(refs) == [kind |-> "ObjectType", refs |-> refs]

MCInputTexts ==
  {<<Entry(<<1>>), Entry(<<0>>)>>, <<Entry(<<1>>)>>, <<Entry(<<-1>>)>>,
   <<Entry(<<Malformed>>)>>, <<Entry(<<0>>), NullEntry>>}
==============================================================================
