--------------------------- MODULE MCFlashEEPROM ---------------------------
(* TLC instance of FlashEEPROM: small pages, each of three short rows. *)
EXTENDS FlashEEPROM
=============================================================================
