------------------------------ MODULE MCPipeline ------------------------------
(***************************************************************************)
(* The pipeline from a sealed case to an audited corpus, on the three      *)
(* artifacts of the employment case in which its conflict shows: the       *)
(* manager's mail, the answer of HR two days later and the report of the   *)
(* expert, who quotes both accounts.                                       *)
(***************************************************************************)
EXTENDS CorpusAudit

Claim(fact, value, day, known) == [fact |-> fact, value |-> value, day |-> day, known |-> known]

MCFacts ==
    {Claim("decision_status", "final", 38, {<<"manager", 38>>, <<"expert", 100>>}),
     Claim("decision_status", "pending", 40, {<<"hr", 40>>, <<"expert", 100>>}),
     Claim("stated_reason", "attendance", 44, {<<"manager", 44>>, <<"hr", 44>>, <<"expert", 100>>})}

Entry(family, logical, author, recipients, day, facts) ==
    [family |-> family, logical |-> logical, author |-> author,
     recipients |-> recipients, day |-> day, facts |-> facts]

MCSpecs ==
    <<Entry("email", "decision", "manager", {"hr"}, 38, <<"decision_status">>),
      Entry("email", "followup", "hr", {"manager"}, 40, <<"decision_status">>),
      Entry("expert", "analysis", "expert", {"lawyer"}, 120,
            <<"decision_status", "decision_status", "stated_reason">>)>>

MCAuthors == [email |-> {"manager", "hr"}, expert |-> {"expert"}]

MCSections == [email |-> <<"header", "message", "disclosure">>,
               expert |-> <<"header", "observations", "limitations", "disclosure">>]

MCAssertionSection == [email |-> "message", expert |-> "observations"]

MCWriterOf == [email |-> "record_writer", expert |-> "expert_builder"]

=============================================================================
