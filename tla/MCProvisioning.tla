---------------------------- MODULE MCProvisioning ----------------------------
EXTENDS Provisioning, TLC

CONSTANTS s1, s2, s3, p1, p2, e1

\* two browsers of one person, and another person with the same address
Subjects == s1 :> p1 @@ s2 :> p1 @@ s3 :> p2
Emails == p1 :> e1 @@ p2 :> e1
=============================================================================
