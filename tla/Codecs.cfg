SPECIFICATION Spec
INVARIANTS MediaIsRead FilesReadBack Base64RoundTrips MessagesAreRead RepliesAreRead HandshakeVerifies
  JsonIsRead JsonIsKept StreamerJsonIsRead
