--------------------------- MODULE MCUploadIntake ---------------------------
EXTENDS UploadIntakeInv, TLC

=============================================================================
