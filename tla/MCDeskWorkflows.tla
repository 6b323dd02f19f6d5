-------------------------- MODULE MCDeskWorkflows --------------------------
(* Small instances of DeskWorkflows for TLC. *)
EXTENDS Circulation, DeskWorkflows, TLC

OneCatalog  == [h \in Holdings |-> CHOOSE c \in Catalogs : TRUE]
AllHoldings == Holdings

Symmetry == Permutations(Sessions) \cup Permutations(LoanIds) \cup Permutations(Keys)
              \cup Permutations(Patrons) \cup Permutations(Holdings)
              \cup Permutations(FulfilIds)

\* The staff commands, but for the publication of the title, are left to the runs
\* of the kernel.
OpenInit == WorkflowInit /\ limit = [t \in PatronTypes |-> MaxLimit]
Publish  == (\E c \in Catalogs : PublishCatalog(c)) /\ UNCHANGED deskVars

\* All workflows on one copy, with and without delivery.
DeskNext ==
  \/ \E s \in Sessions : PostWorkflow(s) \/ WorkflowSessionStep(s)
  \/ Publish
DeskSpec == OpenInit /\ [][DeskNext]_allVars

\* Deliveries, pick-ups and cancels beside returns by barcode: every lock order.
LiveNext ==
  \/ \E s \in Sessions :
       \/ WorkflowSessionStep(s)
       \/ \E p \in Patrons, h \in Holdings, k \in Keys : PostIssue(s, p, h, k, TRUE)
       \/ \E l \in LoanIds, k \in Keys : PostInitiate(s, l, k) \/ PostCancel(s, l, k)
       \/ \E f \in FulfilIds, k \in Keys : PostConfirm(s, f, k)
       \/ \E h \in Holdings, k \in Keys : PostReturnByBarcode(s, h, k)
  \/ Publish
LiveSpec == OpenInit /\ [][LiveNext]_allVars /\ WorkflowFairness

\* Checkouts and cancels only, long enough to lend a copy again.
RelendNext ==
  \/ \E s \in Sessions :
       \/ CancelStep(s) \/ Flush(s) \/ KernelStep(s) \/ DeskReply(s)
       \/ \E p \in Patrons, h \in Holdings, k \in Keys :
            PostCheckout(s, p, h, k) /\ UNCHANGED deskVars
       \/ \E l \in LoanIds, k \in Keys : PostCancel(s, l, k)
  \/ Publish
RelendSpec == OpenInit /\ [][RelendNext]_allVars

\* Issues with a delivery only, repeated by a client that lost the answer.
DeliverNext ==
  \/ \E s \in Sessions :
       \/ IssueStep(s) \/ KernelStep(s) \/ DeskReply(s) \/ DeskCrash(s)
       \/ \E p \in Patrons, h \in Holdings, k \in Keys : PostIssue(s, p, h, k, TRUE)
  \/ Publish
DeliverSpec == OpenInit /\ [][DeliverNext]_allVars

=============================================================================
