----------------------- MODULE MCTemplatePropagation -----------------------
(* All signatures are linked to the first template, or were: they take two   *)
(* batches when all are linked.  Requests that overlap need a second one,    *)
(* whose progress the requests of the first write back.                      *)
EXTENDS TemplatePropagation

CONSTANTS t1, t2

MCTemplates == {t1, t2}
MCOneTemplate == {t1}
MCTemplateOf == [i \in Ids |-> t1]
=============================================================================
