--------------------------- MODULE MCPaidService ---------------------------
(***************************************************************************)
(* Deployments that differ from a proper one in one respect that start-up  *)
(* looks at, and proper ones with other fees.  Only the proper ones come   *)
(* to serve, and a client other than the stranger only cares for the fees.  *)
(***************************************************************************)
EXTENDS HostedReview

Metered == [base |-> 1000000, perKilobyte |-> 100000, perAdjustment |-> 10000,
            min |-> 1000000, max |-> 10000000]
Flat == [Metered EXCEPT !.max = 1000000]
Dear == [Metered EXCEPT !.min = 20000000, !.max = 20000000]

MCNames == {"treasury", "owner", "agent", "guard", "fees", "stranger", "caller",
            "facilitator"}

Body(b, a, ok, in) == [bytes |-> b, adjustments |-> a, decodes |-> ok, inPolicy |-> in]
MCBodyOf == <<Body(290, 2, TRUE, TRUE), Body(290, 2, TRUE, FALSE)>>
MCBodies == {Body(290, 2, TRUE, TRUE), Body(1025, 3, FALSE, FALSE)}

Tree(k, n, x, y) ==
    [threshold |-> 1,
     branches |-> <<Single(k), [threshold |-> n, keys |-> <<x, y>>]>>]
Proper == Tree("owner", 2, "agent", "guard")
MCTenant == [treasury |-> "treasury", owner |-> "owner", agent |-> "agent",
           agentAccount |-> "agent", nativeId |-> "agent", tree |-> Proper,
           agentKey |-> "agent", nameBytes |-> 8, idBytes |-> 200]
Deployment(t, m) ==
    [tenants |-> t, guard |-> "guard", operatorKey |-> "guard", operator |-> "guard",
     feeAccount |-> "fees", feeKey |-> "fees", feeKeyOnLedger |-> "fees",
     price |-> 1000000, meter |-> m, pinned |-> TRUE]
Good == Deployment(<<MCTenant>>, Metered)

Tenantry ==
    {[MCTenant EXCEPT !.tree = x] : x \in
        {Tree("owner", 1, "agent", "guard"), Tree("owner", 2, "agent", "fees"),
         Tree("agent", 2, "owner", "guard"),
         [Proper EXCEPT !.threshold = 2],
         [Proper EXCEPT !.branches = Append(@, Single("agent"))]}}
    \cup {[MCTenant EXCEPT !.agent = "owner", !.agentKey = "owner",
                         !.tree = Tree("owner", 2, "owner", "guard")],
          [MCTenant EXCEPT !.agent = "guard", !.agentKey = "guard",
                         !.tree = Tree("owner", 2, "guard", "agent")],
          [MCTenant EXCEPT !.agentKey = "stranger"],
          [MCTenant EXCEPT !.nativeId = "stranger"],
          [MCTenant EXCEPT !.nameBytes = 0],
          [MCTenant EXCEPT !.idBytes = 585]}

Unsound ==
    {[Good EXCEPT !.tenants = <<t>>] : t \in Tenantry}
    \cup {[Good EXCEPT !.tenants = <<MCTenant, [t EXCEPT !.treasury = "second"]>>] : t \in Tenantry}
    \cup {[Good EXCEPT !.tenants = <<>>], [Good EXCEPT !.operatorKey = "stranger"],
          [Good EXCEPT !.feeAccount = "treasury"], [Good EXCEPT !.feeAccount = "guard"],
          [Good EXCEPT !.feeKey = "agent", !.feeKeyOnLedger = "agent"],
          [Good EXCEPT !.feeKeyOnLedger = "stranger"], [Good EXCEPT !.price = 0],
          [Good EXCEPT !.meter.min = 0], [Good EXCEPT !.meter.max = 999999]}
Priced ==
    {Good, [Good EXCEPT !.meter = Flat],
     [Good EXCEPT !.meter = Dear, !.price = 2000000]}
Sound ==
    {[Good EXCEPT !.pinned = FALSE,
                  !.tenants = <<[MCTenant EXCEPT !.nameBytes = 64, !.idBytes = 584]>>],
     [Good EXCEPT !.tenants = <<MCTenant, [MCTenant EXCEPT !.treasury = "second"]>>]}
MCConfigs == Priced \cup Sound \cup Unsound

MCTopic == [ours |-> TRUE, admin |-> FALSE, submit |-> "guard",
            feeSchedule |-> FALSE, fees |-> FALSE]
MCTopics ==
    {MCTopic, [MCTopic EXCEPT !.ours = FALSE], [MCTopic EXCEPT !.admin = TRUE],
     [MCTopic EXCEPT !.submit = "stranger"], [MCTopic EXCEPT !.feeSchedule = TRUE],
     [MCTopic EXCEPT !.fees = TRUE]}

Usual == [form |-> "plain", payer |-> "facilitator", debit |-> "stranger",
          signer |-> "stranger", to |-> "fees", short |-> 0]
MCPayments ==
    {Usual, [Usual EXCEPT !.form = "unreadable"],
     [Usual EXCEPT !.to = "stranger"], [Usual EXCEPT !.to = "treasury"],
     [Usual EXCEPT !.short = 1]}
    \cup UNION {{[Usual EXCEPT !.form = f, !.debit = "treasury", !.signer = "agent"],
                 [Usual EXCEPT !.form = f, !.payer = "treasury"],
                 [Usual EXCEPT !.form = f, !.signer = "owner"],
                 [Usual EXCEPT !.form = f, !.signer = "guard"]} : f \in {"plain", "opaque"}}

MCInit ==
    /\ Init
    /\ config \in Priced \/ script = "stranger"
    /\ topic \in {MCTopic, NoTopic} \/ (config = Good /\ script = "stranger")

MCSpec == MCInit /\ [][Next]_vars /\ Fairness
=============================================================================
