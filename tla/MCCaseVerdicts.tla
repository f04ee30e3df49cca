--------------------------- MODULE MCCaseVerdicts ---------------------------
\* One of the five signatures, beside the two IPv6 operations.
EXTENDS CaseVerdicts

OneSigned == << Operation("DNS_LOOKUP_TEST", "synthetic-dns", "udp", 53, FALSE) >>
=============================================================================
