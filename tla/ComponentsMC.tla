---------------------------- MODULE ComponentsMC ----------------------------
(*****************************************************************************)
(* Small instances, for TLC, of the components that share no state with      *)
(* each other. A behaviour stays in one scene: the component named by it     *)
(* takes its steps, and the others rest in their initial states.             *)
(*****************************************************************************)
EXTENDS SessionLock, LockOrder, Imports, Evaluations, EventLedger, ReceiptIngest,
        WorkbenchIndex, PendingSpecs, DatabaseLeases, EvolutionApply, ArtifactCapture,
        Mutations, UpdateBatch, EvolutionJournals, AssistedProposals,
        HistoryBackfill, TLC

VARIABLE scene

\* Two batches overlap in an event id, as a retried command's do.
TwoBatches == {<<1, 2>>, <<2, 3>>, <<4>>}

Scenes == {"lock", "ledger", "mutations", "journals", "applies", "database",
           "proposals", "receipts", "index", "specs", "update", "captures", "history", "ratings", "imports", "order"}
\* The resting components have one initial state each; which process creates the session of
\* PendingSpecs makes no difference.
ComponentsInit ==
  /\ scene \in Scenes /\ OrderInit
  /\ Init
  /\ LedgerInit
  /\ MutationInit
  /\ EvoInit
  /\ ApplyInit
  /\ LeasesInit
  /\ ProposalInit
  /\ ReceiptInit
  /\ IndexInit
  /\ SpecInit
  /\ UpdateInit
  /\ CaptureInit
  /\ BackfillInit
  /\ RatingInit
  /\ ImportInit
  /\ scene # "mutations" => \A f \in Paths : files[f] = <<>>
  /\ sessLock = CHOOSE p \in Governors : TRUE
  /\ scene # "update" => \A f \in TemplateFiles : tree[f] = 1
  /\ scene # "imports" => ~linked
  /\ scene # "ratings" => \A m \in Applied : contract[m]

ComponentsNext ==
  \/ scene = "lock" /\ Next
     /\ UNCHANGED <<scene, orderVars, ledgerVars, mutationVars, evoVars, applyVars,
                    leaseVars, proposalVars, receiptVars, indexVars, specVars, updateVars, captureVars, backfillVars, ratingVars, importVars>>
  \/ scene = "ledger" /\ LedgerNext
     /\ UNCHANGED <<scene, orderVars, vars, mutationVars, evoVars, applyVars,
                    leaseVars, proposalVars, receiptVars, indexVars, specVars, updateVars, captureVars, backfillVars, ratingVars, importVars>>
  \/ scene = "mutations" /\ MutationNext
     /\ UNCHANGED <<scene, orderVars, vars, ledgerVars, evoVars, applyVars,
                    leaseVars, proposalVars, receiptVars, indexVars, specVars, updateVars, captureVars, backfillVars, ratingVars, importVars>>
  \/ scene = "journals" /\ EvoNext
     /\ UNCHANGED <<scene, orderVars, vars, ledgerVars, mutationVars, applyVars,
                    leaseVars, proposalVars, receiptVars, indexVars, specVars, updateVars, captureVars, backfillVars, ratingVars, importVars>>
  \/ scene = "applies" /\ ApplyNext
     /\ UNCHANGED <<scene, orderVars, vars, ledgerVars, mutationVars, evoVars,
                    leaseVars, proposalVars, receiptVars, indexVars, specVars, updateVars, captureVars, backfillVars, ratingVars, importVars>>
  \/ scene = "database" /\ LeasesNext
     /\ UNCHANGED <<scene, orderVars, vars, ledgerVars, mutationVars, evoVars,
                    applyVars, proposalVars, receiptVars, indexVars, specVars, updateVars, captureVars, backfillVars, ratingVars, importVars>>
  \/ scene = "proposals" /\ ProposalNext
     /\ UNCHANGED <<scene, orderVars, vars, ledgerVars, mutationVars, evoVars,
                    applyVars, leaseVars, receiptVars, indexVars, specVars, updateVars, captureVars, backfillVars, ratingVars, importVars>>
  \/ scene = "receipts" /\ ReceiptNext
     /\ UNCHANGED <<scene, orderVars, vars, ledgerVars, mutationVars, evoVars,
                    applyVars, leaseVars, proposalVars, indexVars, specVars, updateVars, captureVars, backfillVars, ratingVars, importVars>>
  \/ scene = "index" /\ IndexNext
     /\ UNCHANGED <<scene, orderVars, vars, ledgerVars, mutationVars, evoVars,
                    applyVars, leaseVars, proposalVars, receiptVars, specVars, updateVars, captureVars, backfillVars, ratingVars, importVars>>
  \/ scene = "specs" /\ SpecNext
     /\ UNCHANGED <<scene, orderVars, vars, ledgerVars, mutationVars, evoVars,
                    applyVars, leaseVars, proposalVars, receiptVars, indexVars, updateVars, captureVars, backfillVars, ratingVars, importVars>>
  \/ scene = "update" /\ UpdateNext
     /\ UNCHANGED <<scene, orderVars, vars, ledgerVars, mutationVars, evoVars,
                    applyVars, leaseVars, proposalVars, receiptVars, indexVars, specVars, captureVars, backfillVars, ratingVars, importVars>>
  \/ scene = "captures" /\ CaptureNext
     /\ UNCHANGED <<scene, orderVars, vars, ledgerVars, mutationVars, evoVars,
                    applyVars, leaseVars, proposalVars, receiptVars, indexVars, specVars, updateVars, backfillVars, ratingVars, importVars>>
  \/ scene = "history" /\ BackfillNext
     /\ UNCHANGED <<scene, orderVars, vars, ledgerVars, mutationVars, evoVars,
                    applyVars, leaseVars, proposalVars, receiptVars, indexVars, specVars, updateVars, captureVars, ratingVars, importVars>>
  \/ scene = "ratings" /\ RatingNext
     /\ UNCHANGED <<scene, orderVars, vars, ledgerVars, mutationVars, evoVars,
                    applyVars, leaseVars, proposalVars, receiptVars, indexVars, specVars, updateVars, captureVars, backfillVars, importVars>>
  \/ scene = "imports" /\ ImportNext
     /\ UNCHANGED <<scene, orderVars, vars, ledgerVars, mutationVars, evoVars,
                    applyVars, leaseVars, proposalVars, receiptVars, indexVars, specVars, updateVars, captureVars, backfillVars, ratingVars>>
  \/ scene = "order" /\ OrderNext
     /\ UNCHANGED <<scene, vars, ledgerVars, mutationVars, evoVars, applyVars,
                    leaseVars, proposalVars, receiptVars, indexVars, specVars, updateVars, captureVars, backfillVars, ratingVars, importVars>>

allVars == <<scene, orderVars, vars, ledgerVars, mutationVars, evoVars, applyVars,
             leaseVars, proposalVars, receiptVars, indexVars, specVars, updateVars, captureVars, backfillVars, ratingVars, importVars>>
ComponentsSpec == ComponentsInit /\ [][ComponentsNext]_allVars

-----------------------------------------------------------------------------

\* Every variable of the component that takes its steps has its type.
ComponentsTypeOK ==
  /\ scene \in Scenes /\ OrderTypeOK
  /\ scene = "lock" => TypeOK
  /\ scene = "ledger" => LedgerTypeOK
  /\ scene = "mutations" => MutationTypeOK
  /\ scene = "journals" => EvoTypeOK
  /\ scene = "applies" => ApplyTypeOK
  /\ scene = "database" => LeasesTypeOK
  /\ scene = "proposals" => ProposalTypeOK
  /\ scene = "receipts" => ReceiptTypeOK
  /\ scene = "index" => IndexTypeOK
  /\ scene = "specs" => SpecTypeOK
  /\ scene = "update" => UpdateTypeOK
  /\ scene = "captures" => CaptureTypeOK
  /\ scene = "history" => BackfillTypeOK
  /\ scene = "ratings" => RatingTypeOK
  /\ scene = "imports" => ImportTypeOK
=============================================================================
