----------------------------- MODULE MCKissModem -----------------------------
EXTENDS KissModem
CONSTANTS s1, s2, s3, f1, f2
=============================================================================
