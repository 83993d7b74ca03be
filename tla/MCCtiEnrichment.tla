-------------------------- MODULE MCCtiEnrichment --------------------------
(***************************************************************************)
(* CtiEnrichment for TLC: an address, a source that is no address, and a   *)
(* domain; the three providers, of which the local one lists the address,  *)
(* ThreatFox the domain, and URLhaus answers for the address with no       *)
(* CTIResult; a limiter of two lookups in two ticks and a cache of two     *)
(* ticks, so that entries expire while the limiter is full.                *)
(***************************************************************************)
EXTENDS CtiEnrichment

CONSTANTS i1, i2, d1, local, threatfox, urlhaus

MCKind == [p \in Providers |->
    CASE p = local -> "local" [] p = threatfox -> "threatfox" [] p = urlhaus -> "urlhaus"]

MCFeeds == {<< local, i1 >>, << threatfox, d1 >>}

=============================================================================
