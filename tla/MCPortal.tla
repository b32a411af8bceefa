------------------------------ MODULE MCPortal ------------------------------
\* A portal small enough for TLC.
EXTENDS Portal

MCListings == <<"mug", "lamp", "bed">>
MCSkus == <<"bed", "mug", "lamp">>
MCIssues == <<"late", "damaged">>
MCChanges == {"restock", "rewrite"}
MCTraits == [sold_out |-> {"lamp"}, low |-> {"bed", "mug", "lamp"}, slow |-> {"bed", "mug", "lamp"},
             poor |-> {"lamp"}, paused |-> {"bed"}]
MCFixes == [restock |-> [listing |-> "mug", trait |-> "low"],
            rewrite |-> [listing |-> "lamp", trait |-> "poor"]]
MCCover == [mug |-> 1, lamp |-> 0, bed |-> 1]

==============================================================================
