--------------------------- MODULE MCSlackWorkspace ---------------------------
(***************************************************************************)
(* The instance of SlackWorkspace that TLC explores: one of several small  *)
(* scenarios is chosen at the start.                                       *)
(***************************************************************************)
EXTENDS SlackAgent, TLC

\* No messages, no clicks, no installs.
Says(u, kind, followup, proposes) ==
    [from |-> u, kind |-> kind, followup |-> followup, proposes |-> proposes]
Wants(s, t) == [slug |-> s, alias |-> "x", attempt |-> t]
NoAgent ==
    [said |-> ("m1" :> Says("u1", "text", FALSE, "nothing")
               @@ "m2" :> Says("u1", "text", FALSE, "nothing")
               @@ "m3" :> Says("u2", "text", FALSE, "nothing")),
     carries |-> ("d1" :> "none" @@ "d2" :> "none" @@ "d3" :> "none"),
     admins |-> {"u1"}, clicks |-> ("b1" :> {} @@ "b2" :> {}),
     asks |-> ("i1" :> Wants("s1", "t1") @@ "i2" :> Wants("s1", "t2")),
     origin |-> ("i1" :> "never" @@ "i2" :> "never"), lapses |-> FALSE]

Quiet ==
    [start |-> "configured", owner |-> "u1", bindings |-> TRUE,
     procs |-> {"p1"},
     jobs |-> ("l1" :> {} @@ "l2" :> {}),
     sessions |-> ("f1" :> {"l1"} @@ "f2" :> {"l2"}),
     signIn |-> ("u1" :> {"a1"} @@ "u2" :> {"a2"} @@ "none" :> {}),
     readers |-> {}, clicks |-> ("k1" :> {}), events |-> {}, acts |-> {},
     faults |-> 0, agent |-> NoAgent]

Three(a, b, c) == ("d1" :> a @@ "d2" :> b @@ "d3" :> c)
Agent(a, n) == [Quiet EXCEPT !.agent = a, !.faults = n]
Card(saying) == [NoAgent EXCEPT !.said = [@ EXCEPT !["m1"] = saying],
                                !.carries = Three("m1", "none", "none")]
Pressing(x, y) == ("b1" :> x @@ "b2" :> y)
Approve(u) == <<"d1", u, TRUE>>
Reject(u) == <<"d1", u, FALSE>>
Both(x, y) == ("i1" :> x @@ "i2" :> y)

Two(a, b) == ("l1" :> a @@ "l2" :> b)
OneLink == ("f1" :> {"l1"} @@ "f2" :> {"l1"})
Reuse(u) == {<<u, "reuse">>}
Rotate(u) == {<<u, "rotate">>}

MCScenarios ==
    {\* lookups while the workspace is disconnected, and while its key rotates
     [Quiet EXCEPT !.readers = {"q1", "q2"}, !.clicks = ("k1" :> {"u1"})],
     [Quiet EXCEPT !.readers = {"q1", "q2"}, !.faults = 2],
     [Quiet EXCEPT !.readers = {"q1", "q2"}, !.jobs = Two(Rotate("u1"), {}),
                   !.procs = {"p1", "p2"}],
     \* two browsers on one link, and two users at once, with either endpoint
     [Quiet EXCEPT !.start = "new", !.jobs = Two(Reuse("u1"), {}),
                   !.sessions = OneLink, !.faults = 2],
     [Quiet EXCEPT !.start = "new", !.jobs = Two(Reuse("u1"), Reuse("u1")),
                   !.bindings = FALSE, !.faults = 2],
     [Quiet EXCEPT !.start = "new", !.jobs = Two(Reuse("u1"), Reuse("u2")),
                   !.faults = 1],
     \* two rotations
     [Quiet EXCEPT !.jobs = Two(Rotate("u1"), Rotate("u1")), !.faults = 2],
     [Quiet EXCEPT !.start = "legacy", !.jobs = Two(Rotate("u1"), Rotate("u1")),
                   !.faults = 2],
     [Quiet EXCEPT !.start = "dead", !.jobs = Two(Reuse("u1"), Rotate("u1")),
                   !.bindings = FALSE, !.faults = 1],
     [Quiet EXCEPT !.jobs = Two({<<"u1", "repoint">>}, Rotate("u1")),
                   !.signIn = [@ EXCEPT !["u1"] = {"a1", "a2"}], !.faults = 1],
     [Quiet EXCEPT !.start = "orphaned",
                   !.jobs = Two(Reuse("u1"), Reuse("u2")), !.faults = 1],
     \* setups while the workspace is disconnected
     [Quiet EXCEPT !.jobs = Two(Reuse("u2"), {}), !.clicks = ("k1" :> {"u1"}),
                   !.faults = 1],
     [Quiet EXCEPT !.jobs = Two(Rotate("u1"), {}), !.clicks = ("k1" :> {"u1"}),
                   !.faults = 1],
     \* the app removed, installed and set up again
     [Quiet EXCEPT !.events = {"remove"}, !.acts = {"install"},
                   !.jobs = Two(Reuse("u1"), {})],
     [Quiet EXCEPT !.events = {"remove"}, !.acts = {"install", "admin"},
                   !.faults = 1],
     [Quiet EXCEPT !.events = {"remove"}, !.acts = {"policies"}, !.faults = 2],
     [Quiet EXCEPT !.events = {"remove"}, !.acts = {"agent", "policies"},
                   !.faults = 1],
     [Quiet EXCEPT !.events = {"remove"}, !.acts = {"transfer"}, !.faults = 1],
     [Quiet EXCEPT !.events = {"remove"}, !.acts = {"transfer"},
                   !.clicks = ("k1" :> {"u1"})],
     \* a message delivered three times, and again after the agent is removed
     Agent([NoAgent EXCEPT !.carries = Three("m1", "m1", "m1")], 2),
     [Agent([NoAgent EXCEPT !.carries = Three("m1", "m1", "none")], 0)
         EXCEPT !.events = {"remove"}],
     [Agent([NoAgent EXCEPT !.carries = Three("m1", "m1", "none"),
                            !.said = [@ EXCEPT !["m1"].followup = TRUE]], 1)
         EXCEPT !.acts = {"admin"}],
     \* two uploads, and three turns of two members
     Agent([NoAgent EXCEPT !.carries = Three("m1", "m2", "m3"), !.lapses = TRUE,
               !.said = [@ EXCEPT !["m1"].kind = "upload", !["m2"].kind = "upload",
                                  !["m3"].kind = "fixed"]], 1),
     Agent([NoAgent EXCEPT !.carries = Three("m1", "m2", "m3")], 1),
     \* a card: of a link, of a page, of a change, of a Connector
     Agent([Card(Says("u1", "text", FALSE, "get"))
               EXCEPT !.clicks = Pressing({Approve("u1"), Reject("u1")},
                                         {Approve("u1"), Approve("u2")})], 2),
     Agent([Card(Says("u1", "text", FALSE, "inspect"))
               EXCEPT !.clicks = Pressing({Approve("u1"), Reject("u1")},
                                         {Approve("u2")})], 1),
     Agent([Card(Says("u2", "text", FALSE, "change"))
               EXCEPT !.clicks = Pressing({Approve("u1"), Reject("u1")},
                                         {Approve("u1"), Reject("u2")})], 2),
     Agent([Card(Says("u2", "text", FALSE, "connector"))
               EXCEPT !.clicks = Pressing({Approve("u1")}, {Approve("u1")}),
                      !.origin = Both("b1", "b1"),
                      !.asks = Both(Wants("s1", "t1"), Wants("s1", "t1"))], 0),
     [Agent([Card(Says("u2", "text", FALSE, "change"))
               EXCEPT !.clicks = Pressing({Approve("u1")}, {Approve("u1")})], 0)
         EXCEPT !.acts = {"admin"}],
     [Agent([Card(Says("u2", "text", FALSE, "change"))
               EXCEPT !.clicks = Pressing({Approve("u1")}, {})], 0)
         EXCEPT !.events = {"remove"}],
     \* two installs: of one resource, and of two that want one alias
     Agent([NoAgent EXCEPT !.origin = Both("typed", "typed")], 3),
     Agent([NoAgent EXCEPT !.origin = Both("typed", "typed"),
               !.asks = Both(Wants("s1", "t1"), Wants("s2", "t2"))], 2),
     \* while their alias is removed, by an admin or by a purge
     [Agent([NoAgent EXCEPT !.origin = Both("typed", "typed"),
               !.asks = Both(Wants("s1", "t1"), Wants("s2", "t2"))], 1)
         EXCEPT !.acts = {"unset"}],
     [Agent([NoAgent EXCEPT !.origin = Both("typed", "never")], 0)
         EXCEPT !.events = {"remove"}]}

\* Ownership is transferred while the workspace is disconnected.
TransferScenarios ==
    {[Quiet EXCEPT !.acts = {"transfer"}, !.clicks = ("k1" :> {"u1"})]}
=============================================================================
