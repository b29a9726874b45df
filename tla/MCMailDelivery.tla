---------------------------- MODULE MCMailDelivery ----------------------------
(* MailDelivery for TLC: one email whose addresses vary, the others plain. *)
EXTENDS MailDelivery

CONSTANT Varied

LF == <<"linuxfoundation", "org">>
LFX == <<"lfx">> \o LF
Other == <<"example", "com">>

Plain(d) == [form |-> "plain", domain |-> d, path |-> d]
Odd(f) == [form |-> f, domain |-> LFX, path |-> Other]

Tos == {Plain(LFX), Plain(Other), Odd("quoted"), Odd("nonascii"), Odd("malformed"), Odd("long")}
Froms == {Empty, Plain(LFX), Plain(LF), Odd("nonascii")}
ReplyTos == {Empty, Plain(LFX), Plain(Other), Odd("quoted")}

VariedInputs ==
  {[m \in Mails |-> IF m = Varied THEN c ELSE [to |-> Plain(LFX), from |-> Empty, replyTo |-> Empty]]
    : c \in [to : Tos, from : Froms, replyTo : ReplyTos]}

Unset == [set |-> FALSE, domains |-> {}]
SetTo(domains) == [set |-> TRUE, domains |-> domains]

Production == [recipients |-> Unset, from |-> Unset, replyTo |-> Unset, emailEnabled |-> "true",
               defaultFrom |-> Empty, smtpFrom |-> Empty]
AllEnvironments ==
  {Production,
   [Production EXCEPT !.recipients = SetTo({LF, << >>}), !.smtpFrom = Plain(LF)],
   [Production EXCEPT !.from = SetTo({}), !.replyTo = SetTo({})],
   [Production EXCEPT !.emailEnabled = "TRUE"],
   [Production EXCEPT !.defaultFrom = Odd("quoted"), !.smtpFrom = Plain(LF)]}
=============================================================================
