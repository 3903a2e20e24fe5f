------------------------- MODULE MCSourceIngestion -------------------------
(* SourceIngestion over a feed that corrects a notice and takes the correction *)
(* back.  The operator has a bundle with the notices of the second page the    *)
(* other way round, a revision of a staged bundle under its id, and three       *)
(* bundles that are refused.                                                  *)
EXTENDS SourceIngestion
CONSTANTS w1, w2, o1, n1, n2

Item(ext, content) == [ext |-> ext, content |-> content]
Bundle(id, manifest, items, state) ==
    [id |-> id, manifest |-> manifest, items |-> items, state |-> state]

MCFeed == << <<Item(n1, 1)>>, <<Item(n2, 1), Item(n1, 2)>>, <<Item(n1, 1)>> >>
MCArchive ==
    {Bundle(<<0, 1>>, 1, <<Item(n1, 2), Item(n2, 1)>>, "sound"),
     Bundle(<<1, 1>>, 9, <<Item(n1, 1)>>, "sound"),
     Bundle(<<0, 2>>, 1, <<Item(n2, 1)>>, "oversized"),
     Bundle(<<0, 3>>, 1, <<Item(n2, 1)>>, "corrupt"),
     Bundle(<<0, 4>>, 1, <<Item(n2, 1)>>, "drifted")}
=============================================================================
