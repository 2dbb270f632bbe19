------------------------------ MODULE MCVoiceRoom ------------------------------
EXTENDS VoiceRoom
CONSTANTS s1, s2, s3
================================================================================
