------------------------------- MODULE MCCallBack -------------------------------
\* Values of the constants of CallBack for TLC.
EXTENDS CallBackHls, TLC

CONSTANTS s1, s2, pi1, pi2

\* Two streams of one pi
OnePi == s1 :> pi1 @@ s2 :> pi1

\* A stream each of two pis
TwoPis == s1 :> pi1 @@ s2 :> pi2

=============================================================================
