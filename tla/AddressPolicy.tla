---------------------------- MODULE AddressPolicy ----------------------------
(***************************************************************************)
(* The allow lists of internal/domain/policy.go and the checks of the SMTP *)
(* sender, on addresses reduced to what these look at.  An address is      *)
(*   form    how net/mail parses it: "plain", "quoted" (its local part     *)
(*           needs RFC 5322 quotes), "nonascii" (some rune is not ASCII),  *)
(*           "malformed" (no mailbox), "long" (over a limit of pkg/api);   *)
(*   domain  the labels of the lower-cased text after the last "@";        *)
(*   path    the labels of the domain a server reads in the unquoted       *)
(*           mailbox that net/smtp writes, which for a quoted local part   *)
(*           or a rune that strings.ToLower folds to ASCII can be another  *)
(* Empty is a field that is not set.  Domains are lower-cased and trimmed, *)
(* which parseEnv and NewAddressPolicy both do.                            *)
(***************************************************************************)
EXTENDS Naturals, Sequences, SequencesExt

Empty == [form |-> "empty", domain |-> << >>, path |-> << >>]

Under(domain, allowed) == \E d \in allowed : IsSuffix(d, domain)

(* CheckAddressLength: what does not parse passes.                         *)
CheckAddressLength(addr) == addr.form # "long"

(* Mutant: the address is not checked for non-ASCII bytes.                 *)
IsStrictFoldingRunes(addr) == addr.form \in {"plain", "nonascii"}

(* strictAddressDomain returns a domain.                                   *)
IsStrict(addr) == addr.form = "plain"

IsRecipientAllowed(to, allowed) ==
  \/ allowed = {}
  \/ IsStrict(to) /\ Under(to.domain, allowed)

ValidateFrom(from, allowed) ==
  \/ from = Empty
  \/ IsStrict(from) /\ from.domain \in allowed

ValidateReplyTo(replyTo, allowed) ==
  \/ replyTo = Empty
  \/ IsStrict(replyTo) /\ Under(replyTo.domain, allowed)

(* sendMessage: within the limits, parsed, and not in need of quotes.      *)
IsEnvelopeAddress(addr) == addr.form \in {"plain", "nonascii"}

-----------------------------------------------------------------------------
(* parseEnv (cmd/email-service/config.go).  A list variable is what        *)
(* os.LookupEnv returns of it: whether it is set, and the domains between  *)
(* its commas.  One that is set to nothing differs from one that is not    *)
(* set: it allows nothing, rather than the default.                        *)
NoReply == [form |-> "plain", domain |-> <<"lfx", "linuxfoundation", "org">>,
            path |-> <<"lfx", "linuxfoundation", "org">>]

DomainsOf(var, default) == (IF var.set THEN var.domains ELSE default) \ {<< >>}

ParseEnv(env) ==
  [recipients |-> DomainsOf(env.recipients, {}),
   from       |-> DomainsOf(env.from, {<<"lfx", "linuxfoundation", "org">>}),
   replyTo    |-> DomainsOf(env.replyTo, {<<"linuxfoundation", "org">>}),
   enabled    |-> env.emailEnabled \in {"true", "t", "1"},
   sender     |-> IF env.defaultFrom # Empty THEN env.defaultFrom
                  ELSE IF env.smtpFrom # Empty THEN env.smtpFrom ELSE NoReply]
=============================================================================
