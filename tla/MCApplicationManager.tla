------------------------ MODULE MCApplicationManager ------------------------
(* Instances of ApplicationManager for TLC *)
EXTENDS ApplicationManager

CONSTANTS Hosted, Standalone    \* applications

(* Hosted is started via a launcher, Standalone is a process of its own *)
MCHosted == [x \in Apps |-> IF x = Hosted THEN {"launcher"} ELSE {"native"}]

(* versions that run within the System UI, and versions with a process *)
MCEmbedded == [x \in Apps |-> {"inproc", "interface"}]

=============================================================================
