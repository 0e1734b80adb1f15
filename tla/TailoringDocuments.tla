------------------------- MODULE TailoringDocuments -------------------------
(***************************************************************************)
(* What the commands of the authoring workflow print, held against the     *)
(* schemas their help publishes.                                           *)
(***************************************************************************)
EXTENDS Tailoring, Documents

DescribedSpecification(s) == Conforms(SpecificationNode(s), SpecificationSchema)
DescribedPlan(plan) == plan.ok => Conforms(PlanNode(plan.value), PlanSchema)

\* What atr prints is what its help says it prints. Nothing ties the published
\* schemas to the documents but their authors: a list a document leaves null or
\* a part it leaves out would meet an agent that reads it by its schema.
DocumentsAreDescribed ==
    /\ last = "source_inspect" => Conforms(CatalogNode(catalogFile.catalog), CatalogSchema)
    /\ last = "processor_inspect" => Conforms(ObservationNode(observationFile), ObservationSchema)
    /\ last = "spec_init" => DescribedSpecification(specificationFile)
    /\ last = "none" /\ Inputs.ok => DescribedSpecification(Inputs.value)
    /\ JustAdopted => \A args \in Attempts : Len(args) <= 2 => DescribedPlan(PlanFor(args))
=============================================================================
