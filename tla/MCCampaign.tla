----------------------------- MODULE MCCampaign -----------------------------
(***************************************************************************)
(* A card with one attribute of 0..2 and a list of two things, two notes,  *)
(* and turns that write the same places and notes by different paths,      *)
(* alone and several operations at a time.                                 *)
(***************************************************************************)
EXTENDS Campaign

Operation(op, path, value) == [op |-> op, path |-> path, value |-> value]

NoteOperation(op, id) == [op |-> op, id |-> id]

Turn(ops) == [card |-> ops, notes |-> <<>>]

MCTurns ==
  { Turn(<<Operation("increment", "/attributes/str", 1)>>),
    Turn(<<Operation("remove", "/attributes/str", 0)>>),
    Turn(<<Operation("add", "/inventory", <<"rope">>)>>),
    Turn(<<Operation("set", "/inventory/0", <<"lamp">>)>>),
    Turn(<<Operation("remove", "/inventory/0", <<>>)>>),
    Turn(<<Operation("remove", "/inventory", <<>>)>>),
    Turn(<<Operation("set", "/attributes/str", 0), Operation("set", "/attributes", 1)>>),
    [card |-> <<Operation("increment", "/attributes/str", 1),
                Operation("increment", "/attributes/str", -2),
                Operation("set", "/inventory", <<>>)>>,
     notes |-> <<NoteOperation("create", "n1")>>],
    [card |-> <<>>,
     notes |-> <<NoteOperation("update", "n1"), NoteOperation("create", "n2"),
                 NoteOperation("resolve", "n1")>>],
    [card |-> <<Operation("set", "/attributes", 2)>>,
     notes |-> <<NoteOperation("resolve", "n1"), NoteOperation("delete", "n1")>>] }

MCItems == {"rope", "lamp"}

MCSheets == {[str |-> 1, items |-> <<"rope">>], [str |-> Gone, items |-> <<>>]}
=============================================================================
