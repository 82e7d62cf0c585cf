------------------------------- MODULE MCPages -------------------------------
(***************************************************************************)
(* An instance of Pages for TLC.  A stored workflow of a schedule and a    *)
(* calendar action, and the page of a new one, with a second calendar      *)
(* action that may be dropped on either; a panel of three blocks, more     *)
(* than the list of recent blocks holds, on the page of a new workflow;    *)
(* widths around both limits and around half the smaller one, and one      *)
(* below zero; two workflows with a page of one card, so that pages        *)
(* overflow, one of them with a tag; two runs, one of which has ended, of  *)
(* a workflow with one node and two handlers for it, and a stream's        *)
(* channel that holds one message.                                         *)
(***************************************************************************)
EXTENDS Pages, TLC

MCBlockOf == ("t" :> "schedule") @@ ("a" :> "calendar") @@ ("u" :> "calendar")
MCRenderedNodes == ("new" :> {}) @@ ("w" :> {"t", "a"})
MCRenderedEdges == ("new" :> {}) @@ ("w" :> {<<"t", "a">>})
MCRenderedConfig == ("t" :> "full") @@ ("a" :> "full") @@ ("u" :> "empty")

MCPanelBlockOf == ("t" :> "schedule") @@ ("a" :> "send_email") @@ ("u" :> "send_sms")
MCMatches == ("" :> PanelBlocks) @@ ("send" :> {"send_email", "send_sms"})

MCDragWidths == {-1, 1, 2, 3, 4, 6, 7}

MCTagsOf == ("w1" :> {"t1"}) @@ ("w2" :> {})
MCMatching == ("" :> Workflows) @@ ("q" :> {"w1"})
Link(t, tags, p) == [q |-> "", tab |-> t, tags |-> tags, page |-> p]
MCLinks == {Link(None, {}, 1), Link("draft", {"t1"}, 2)}
=============================================================================
