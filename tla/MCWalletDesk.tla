---------------------------- MODULE MCWalletDesk ----------------------------
(* TLC instances of InvoiceAudit, and with it of WalletDesk. *)
EXTENDS InvoiceAudit, TLC

\* Invoices on account, and by payment link, with payments and activations; the
\* life of subscriptions without debt; invoices that are edited and voided, with
\* payments of debt and with a prepaid wallet.
MCWorkloads == {{"DEBT", "activate", "pay", "discount"},
                {"LINK", "activate", "pay", "discount"},
                {"activate", "cancel", "extend", "day"},
                {"DEBT", "CASH", "pay", "edit", "void", "day"},
                {"WALLET", "activate", "edit", "void"}}

\* No handler compares or orders sessions.
SessionSymmetry == Permutations(Sessions)
=============================================================================
