------------------------------ MODULE MCLimits ------------------------------
EXTENDS Limits, TLC

MCBursts == 2 :> 2 @@ 4 :> 3

\* Users, registrations and one-time codes share nothing but the time: a
\* behaviour is followed as long as it is about one of them.
OneLimitAtATime ==
  LET counts(keys) == \E b \in DOMAIN rate_limit_buckets : b[1] \in keys
      codes == \E x \in DOMAIN asked : asked[x] # Never
  IN  /\ counts(UserIds) => ~counts(Ips) /\ ~codes
      /\ counts(Ips) \/ codes => \A w \in Windows : config[w] = NULL
      /\ counts(Ips) => ~codes
=============================================================================
